---- MODULE Spec2Model ----
(***************************************************************************)
(* A model of the hnscan index engine: the chain-state accumulator         *)
(* (lib/types.js ChainState), the store and its writers (lib/hnscandb.js   *)
(* HnscanDB, carried in src/lib/plugin.js) and the daily chart aggregator  *)
(* (ChartData.fromArray, HnscanDB.setChartData).                           *)
(*                                                                         *)
(* The specifications share the variables:                                 *)
(*   Spec        the block pipeline: saveEntry, saveState, setHeight, the  *)
(*               rollback of a block, and a process restart;               *)
(*   SpecChart   the chart aggregator fed with points;                     *)
(*   SpecOpen    opening and closing the store under a configured network; *)
(*   SpecAddr    the address index and its queries;                        *)
(*   SpecName    the name history;                                         *)
(*   SpecSeries  the chart series queries;                                 *)
(*   SpecNotify  the chain's notifications and the handlers in flight;     *)
(*   SpecCoins   blocks whose transactions spend name outputs;             *)
(*   SpecClient  ChainClient's open, close and deferred emissions;         *)
(*   SpecAsync   overlapping calls of setChartData;                        *)
(*   SpecHTTP    the HTTP server's options and authentication;             *)
(*   SpecPlugin  Plugin.open;                                              *)
(*   SpecTxs     Hnscan.getTransactions.                                   *)
(***************************************************************************)
EXTENDS Integers, Sequences, FiniteSets, TLC

VARIABLES
    state,                 \* HnscanDB.state: the live ChainState
    pending,               \* HnscanDB.pending
    hdbHeight,             \* HnscanDB.height (set by setHeight)
    db,                    \* the store: one field per key family
    pc,                    \* position of the block handler in flight
    cur,                   \* the notification whose handler is in flight
    pre,                   \* history: the live state when the last handler began
    result,                \* how the last saveEntry ended
    chain,                 \* the ledger's connected blocks, oldest first
    unwound,               \* history: rollbacks since the last connected block
    chartDataCurrentDate,  \* HnscanDB.chartDataCurrentDate
    chartDataCurrent,      \* HnscanDB.chartDataCurrent
    observed,              \* history: the points this process handed to setChartData
    calls,                 \* history: setChartData calls over all processes
    flushed,               \* history: what the last setChartData call wrote
    network,               \* the configured network (HnscanDB.network)
    ledgerTxs,             \* the node's transactions by id (client.getTX)
    clientOpened,          \* ChainClient.opened
    handlers,              \* the notification handlers in flight, oldest first
    immediates,            \* the callbacks ChainClient queued with setImmediate
    delivered,             \* history: the last call or emission of ChainClient
    lastCall,              \* history: the last open() or close() that succeeded
    opened,                \* lifecycle of the HnscanDB object
    plugin                 \* Plugin.open: its position and the components

vars == <<state, pending, hdbHeight, db, pc, cur, pre, result, chain, unwound,
          chartDataCurrentDate, chartDataCurrent, observed, calls,
          flushed, network, ledgerTxs, clientOpened, handlers, immediates,
          delivered, lastCall, opened, plugin>>

chainVars == <<state, pending, hdbHeight, pc, cur, pre, result, chain,
               unwound>>
chartVars == <<chartDataCurrentDate, chartDataCurrent, observed, calls,
               flushed>>
openVars  == <<network, opened, plugin>>
addrVars  == <<ledgerTxs>>
deferVars  == <<immediates, delivered, lastCall>>
clientVars == <<clientOpened, handlers, deferVars>>

-----------------------------------------------------------------------------
(* Bounds of the model. *)

\* The ledger never grows past this many blocks.
MaxHeight == 3

\* The chart aggregator is fed at most this many points, over all processes.
MaxPoints == 4

-----------------------------------------------------------------------------
(* Values shared by the three parts. *)

\* JavaScript null / a missing store key.
Null == [null |-> TRUE]

\* consensus.ZERO_HASH, the tip of a fresh ChainState.
ZERO_HASH == <<>>

\* A Plugin whose open() has not been called: no component is open.
NewPlugin ==
    [step |-> "new", hdb |-> "closed", indexer |-> "closed", http |-> "closed"]

\* hsd covenant types (rules.types).
types == [NONE |-> 0, CLAIM |-> 1, OPEN |-> 2, BID |-> 3, REVEAL |-> 4,
          REDEEM |-> 5, REGISTER |-> 6, UPDATE |-> 7, RENEW |-> 8,
          TRANSFER |-> 9, FINALIZE |-> 10, REVOKE |-> 11]

-----------------------------------------------------------------------------
(* ChainState (lib/types.js). *)

\* new ChainState()
NewChainState ==
    [tip |-> ZERO_HASH, tx |-> 0, coin |-> 0, value |-> 0, burned |-> 0,
     committed |-> FALSE]

\* Mutant of inject: the committed flag is copied too.
injectWithFlag(self, st) ==
    [self EXCEPT !.tip = st.tip, !.tx = st.tx, !.coin = st.coin,
                 !.value = st.value, !.burned = st.burned,
                 !.committed = st.committed]

\* ChainState.inject: copies the five counters, not the committed flag.
inject(self, st) ==
    [self EXCEPT !.tip = st.tip, !.tx = st.tx, !.coin = st.coin,
                 !.value = st.value, !.burned = st.burned]

\* bio.Struct.clone as used by this.state.clone(): a new object, injected.
clone(st) == inject(NewChainState, st)

connect(st, block) == [st EXCEPT !.tx = @ + Len(block.txs)]

disconnect(st, block) == [st EXCEPT !.tx = @ - Len(block.txs)]

add(st, coin) == [st EXCEPT !.coin = @ + 1, !.value = @ + coin.value]

spend(st, coin) == [st EXCEPT !.coin = @ - 1, !.value = @ - coin.value]

\* Mutant of burn: the burned coin is not counted.
burnNoCoin(st, coin) == [st EXCEPT !.burned = @ + coin.value]

\* Mutant of burn: the burned value lands in the circulating value.
burnIntoValue(st, coin) == [st EXCEPT !.coin = @ + 1, !.value = @ + coin.value]

burn(st, coin) == [st EXCEPT !.coin = @ + 1, !.burned = @ + coin.value]

unburn(st, coin) == [st EXCEPT !.coin = @ - 1, !.burned = @ - coin.value]

\* ChainState.commit: stamps the tip and marks the state committed.
commit(st, hash) == [st EXCEPT !.tip = hash, !.committed = TRUE]

\* ChainState.write: the 64-byte record, without the committed flag.
encodeState(st) == <<st.tip, st.tx, st.coin, st.value, st.burned>>

\* ChainState.read into a new ChainState.
decodeState(raw) ==
    [NewChainState EXCEPT !.tip = raw[1], !.tx = raw[2], !.coin = raw[3],
                          !.value = raw[4], !.burned = raw[5]]

\* The five persisted counters of a ChainState.
Counters(st) ==
    [tip |-> st.tip, tx |-> st.tx, coin |-> st.coin, value |-> st.value,
     burned |-> st.burned]

-----------------------------------------------------------------------------
(* Blocks, outputs and views as HnscanDB.saveEntry reads them. *)

Out(v, t, a) == [value |-> v, covenant |-> [type |-> t], address |-> a]

\* output.isUnspendable(): a nulldata address or a REVOKE covenant.
isUnspendable(output) ==
    output.address = "nulldata" \/ output.covenant.type = types.REVOKE

\* covenant.isRegister()
isRegister(covenant) == covenant.type = types.REGISTER

\* block.hash(): collision free, so the block's content stands for it.
hashOf(block) == <<block.prevBlock, block.txs>>

\* view.getOutput(prevout): the coin, or null when the view has none.
getOutput(view, prevout) ==
    IF prevout \in DOMAIN view THEN view[prevout] ELSE Null

\* The inner loop over tx.inputs (plugin.js 260-263). spend(null) decrements
\* coin and then throws a TypeError on coin.value.
RECURSIVE spendInputs(_, _, _, _)
spendInputs(p, inputs, view, k) ==
    IF p.threw \/ k > Len(inputs) THEN p
    ELSE LET coin == getOutput(view, inputs[k]) IN
         IF coin = Null
         THEN [st |-> [p.st EXCEPT !.coin = @ - 1], threw |-> TRUE]
         ELSE spendInputs([st |-> spend(p.st, coin), threw |-> FALSE],
                          inputs, view, k + 1)

\* Mutant of addOutputs: the administrative range starts after UPDATE.
RECURSIVE addOutputsLoose(_, _, _)
addOutputsLoose(st, outputs, j) ==
    IF j > Len(outputs) THEN st
    ELSE LET output == outputs[j] IN
         IF isUnspendable(output) THEN addOutputsLoose(st, outputs, j + 1)
         ELSE IF isRegister(output.covenant)
              THEN addOutputsLoose(burn(st, output), outputs, j + 1)
         ELSE IF output.covenant.type > types.UPDATE
                 /\ output.covenant.type <= types.REVOKE
              THEN addOutputsLoose(st, outputs, j + 1)
         ELSE addOutputsLoose(add(st, output), outputs, j + 1)

\* The inner loop over tx.outputs (plugin.js 266-285).
RECURSIVE addOutputs(_, _, _)
addOutputs(st, outputs, j) ==
    IF j > Len(outputs) THEN st
    ELSE LET output == outputs[j] IN
         IF isUnspendable(output) THEN addOutputs(st, outputs, j + 1)
         ELSE IF isRegister(output.covenant)
              THEN addOutputs(burn(st, output), outputs, j + 1)
         ELSE IF output.covenant.type >= types.UPDATE
                 /\ output.covenant.type <= types.REVOKE
              THEN addOutputs(st, outputs, j + 1)
         ELSE addOutputs(add(st, output), outputs, j + 1)

\* Whether the inputs of block.txs[i] are spent: every transaction but the
\* coinbase (plugin.js 259).
spendsInputs(i) == i > 1

\* The loop over block.txs (plugin.js 256-286).
RECURSIVE connectTxs(_, _, _, _)
connectTxs(p, txs, view, i) ==
    IF p.threw \/ i > Len(txs) THEN p
    ELSE LET tx == txs[i]
             q  == IF spendsInputs(i) THEN spendInputs(p, tx.inputs, view, 1)
                   ELSE p
         IN IF q.threw THEN q
            ELSE connectTxs([st |-> addOutputs(q.st, tx.outputs, 1),
                             threw |-> FALSE], txs, view, i + 1)

\* The object this.pending holds when saveEntry reaches line 288, or when it
\* throws: the clone of the live state with the block applied so far.
saveEntryPending(live, block, view) ==
    connectTxs([st |-> connect(clone(live), block), threw |-> FALSE],
               block.txs, view, 1)

\* Mutant of saveEntry: this.pending aliases the live state instead of a
\* clone, so a throw leaves the half-updated counters in the live state.
saveEntryAliased(live, block, view) ==
    LET p == saveEntryPending(live, block, view) IN
    IF p.threw
    THEN [state |-> p.st, pending |-> p.st, threw |-> TRUE]
    ELSE [state |-> commit(p.st, hashOf(block)), pending |-> Null,
          threw |-> FALSE]

\* What saveEntry leaves: on a throw the live state is untouched and
\* this.pending keeps the half-updated clone; otherwise the committed clone
\* becomes the live state and this.pending is null (plugin.js 288-290).
saveEntry(live, block, view) ==
    LET p == saveEntryPending(live, block, view) IN
    IF p.threw
    THEN [state |-> live, pending |-> p.st, threw |-> TRUE]
    ELSE [state |-> commit(p.st, hashOf(block)), pending |-> Null,
          threw |-> FALSE]

-----------------------------------------------------------------------------
(* The ledger that delivers the notifications (hsd's chain): each block     *)
(* spends coins the connected chain holds, and its view resolves them.      *)

\* A prevout names an output: <<height of its block, tx position, index>>.
NullPrevout == <<0, 0, 0>>

\* The coinbase: one null input, the block reward as its output.
Coinbase ==
    [inputs |-> <<NullPrevout>>, outputs |-> <<Out(2, types.NONE, "a1")>>]

\* The output lists a non-coinbase transaction may carry.
OutputTemplates ==
    { <<Out(1, types.REGISTER, "a1")>>,
      <<Out(2, types.REGISTER, "a2")>>,
      <<Out(1, types.NONE, "a2"), Out(1, types.UPDATE, "a1")>>,
      <<Out(1, types.NONE, "a1"), Out(1, types.NONE, "nulldata")>>,
      <<Out(1, types.REVOKE, "a1")>>,
      <<Out(1, types.REGISTER, "nulldata")>> }

tipOf(ch) == IF ch = <<>> THEN ZERO_HASH ELSE hashOf(ch[Len(ch)].block)

\* The prevouts the non-coinbase transactions of a block spend.
inputsOf(block) ==
    UNION { { block.txs[i].inputs[k] : k \in 1..Len(block.txs[i].inputs) } :
            i \in 2..Len(block.txs) }

\* The coins a block at height h creates (unspendable outputs are no coins).
createdBy(block, h) ==
    UNION { { <<h, i, j>> : j \in { n \in 1..Len(block.txs[i].outputs) :
                                      ~isUnspendable(block.txs[i].outputs[n]) } } :
            i \in 1..Len(block.txs) }

RECURSIVE utxoOf(_)
utxoOf(ch) ==
    IF ch = <<>> THEN {}
    ELSE LET e == ch[Len(ch)] IN
         (utxoOf(SubSeq(ch, 1, Len(ch) - 1)) \ inputsOf(e.block))
             \cup createdBy(e.block, Len(ch))

coinAt(ch, id) == ch[id[1]].block.txs[id[2]].outputs[id[3]]

sumValues(ch, ids) ==
    LET RECURSIVE sum(_)
        sum(S) == IF S = {} THEN 0
                  ELSE LET x == CHOOSE y \in S : TRUE
                       IN coinAt(ch, x).value + sum(S \ {x})
    IN sum(ids)

RECURSIVE sumOutputs(_, _)
sumOutputs(outputs, j) ==
    IF j > Len(outputs) THEN 0
    ELSE outputs[j].value + sumOutputs(outputs, j + 1)

Less(a, b) ==
    \/ a[1] < b[1]
    \/ a[1] = b[1] /\ a[2] < b[2]
    \/ a[1] = b[1] /\ a[2] = b[2] /\ a[3] < b[3]

\* One or two distinct unspent coins.
InputChoices(U) ==
    { <<a>> : a \in U } \cup
    { <<p[1], p[2]>> : p \in { q \in U \X U : Less(q[1], q[2]) } }

\* The blocks the ledger may connect on top of ch: the coinbase alone, or the
\* coinbase and one transaction that spends unspent coins and pays out no
\* more than it spends.
NewBlocks(ch) ==
    { [prevBlock |-> tipOf(ch), txs |-> <<Coinbase>>] } \cup
    UNION { { [prevBlock |-> tipOf(ch),
               txs |-> <<Coinbase, [inputs |-> ins, outputs |-> outs]>>] :
                outs \in { o \in OutputTemplates :
                             sumOutputs(o, 1) <=
                               sumValues(ch, {ins[k] : k \in 1..Len(ins)}) } } :
            ins \in InputChoices(utxoOf(ch)) }

\* The view of a block: the spent coins of its inputs, all but `missing`.
viewFor(ch, block, missing) ==
    [id \in inputsOf(block) \ {missing} |-> coinAt(ch, id)]

-----------------------------------------------------------------------------
(* The store and the helpers that encode what HnscanDB writes to it. *)

\* fromU32: four little-endian bytes.
fromU32(num) ==
    <<num % 256, (num \div 256) % 256, (num \div 65536) % 256,
      (num \div 16777216) % 256>>

\* toU32
toU32(buf) == buf[1] + 256 * buf[2] + 65536 * buf[3] + 16777216 * buf[4]

\* What db.verify(layout.V, "hnscan", 0) writes and expects.
VersionRecord == <<"hnscan", 0>>

\* A store no process has written yet.
EmptyStore ==
    [V |-> Null, O |-> Null, s |-> Null, H |-> Null, d |-> <<>>,
     o |-> <<>>, i |-> <<>>, t |-> <<>>, n |-> <<>>]

\* HnscanDB.getState: the decoded chain-state slot, or null.
getState(store) == IF store.s = Null THEN Null ELSE decodeState(store.s)

\* HnscanDB.getHeight
getHeight(store) == IF store.H = Null THEN 0 ELSE toU32(store.H)

\* The live state HnscanDB.open leaves: the constructor's fresh state unless
\* the store holds one (plugin.js 176, 193-197).
openState(store) ==
    IF getState(store) = Null THEN NewChainState ELSE getState(store)

-----------------------------------------------------------------------------
(* The chart aggregator: ChartData.fromArray (lib/types.js) and            *)
(* HnscanDB.setChartData. A difficulty is a double; the mean fromArray      *)
(* computes is kept as the fraction num/den it divides.                     *)

\* Seconds per day, the bucket width (3600 * 24).
DaySeconds == 3600 * 24

\* Math.floor(time / (3600 * 24))
dayOf(time) == time \div DaySeconds

Max(a, b) == IF a >= b THEN a ELSE b

\* Mutant of reducer: the supply of the last point wins.
reducerLast(a, b) ==
    [difficulty   |-> a.difficulty + b.difficulty,
     transactions |-> a.transactions + b.transactions,
     supply       |-> b.supply,
     burned       |-> Max(a.burned, b.burned),
     totalTx      |-> Max(a.totalTx, b.totalTx)]

\* The callback of data.reduce in fromArray.
reducer(a, b) ==
    [difficulty   |-> a.difficulty + b.difficulty,
     transactions |-> a.transactions + b.transactions,
     supply       |-> Max(a.supply, b.supply),
     burned       |-> Max(a.burned, b.burned),
     totalTx      |-> Max(a.totalTx, b.totalTx)]

\* data.reduce(callback) without an initial value: starts from data[0].
RECURSIVE reduce(_, _, _)
reduce(acc, data, k) ==
    IF k > Len(data) THEN acc ELSE reduce(reducer(acc, data[k]), data, k + 1)

\* ChartData.fromArray(data), for a non-empty array.
fromArray(data) ==
    LET sums == reduce(data[1], data, 2) IN
    [time         |-> dayOf(data[1].time),
     difficulty   |-> [num |-> sums.difficulty, den |-> Len(data)],
     transactions |-> sums.transactions,
     supply       |-> sums.supply,
     burned       |-> sums.burned,
     totalTx      |-> sums.totalTx]

\* ChartData.write: the time is not part of the record.
encodeChart(cd) ==
    [difficulty |-> cd.difficulty, transactions |-> cd.transactions,
     supply |-> cd.supply, burned |-> cd.burned, totalTx |-> cd.totalTx]

\* Mutant of setChartData: any point of another day closes the bucket.
setChartDataOnChange(date, buf, data) ==
    LET d == dayOf(data.time) IN
    IF date = 0
    THEN [date |-> d, buf |-> Append(Append(buf, data), data), puts |-> <<>>]
    ELSE IF d # date
    THEN [date |-> d, buf |-> <<data>>,
          puts |-> << <<d * 3600 * 24, encodeChart(fromArray(buf))>> >>]
    ELSE [date |-> date, buf |-> Append(buf, data), puts |-> <<>>]

\* HnscanDB.setChartData(data) on the aggregator (date, buf): the new
\* aggregator and the puts issued, as <<key, value>> pairs.
setChartData(date, buf, data) ==
    LET d == dayOf(data.time) IN
    IF date = 0
    THEN \* no return here: the push at the end of the function runs too
         [date |-> d, buf |-> Append(Append(buf, data), data), puts |-> <<>>]
    ELSE IF d > date
    THEN [date |-> d, buf |-> <<data>>,
          puts |-> << <<d * 3600 * 24, encodeChart(fromArray(buf))>> >>]
    ELSE [date |-> date, buf |-> Append(buf, data), puts |-> <<>>]

\* db.put of each pair, in order.
RECURSIVE putAll(_, _, _)
putAll(d, puts, k) ==
    IF k > Len(puts) THEN d
    ELSE putAll((puts[k][1] :> puts[k][2]) @@ d, puts, k + 1)

-----------------------------------------------------------------------------
(* The rollback of a block. lib/indexer.js is not among the sources; the    *)
(* spec (4.1, 4.5) gives the rollback as the inverse of saveEntry built     *)
(* from the ChainState primitives, and the order of the handler's calls.    *)

RECURSIVE unspendInputs(_, _, _, _)
unspendInputs(st, inputs, view, k) ==
    IF k > Len(inputs) THEN st
    ELSE unspendInputs(add(st, getOutput(view, inputs[k])), inputs, view, k + 1)

RECURSIVE removeOutputs(_, _, _)
removeOutputs(st, outputs, j) ==
    IF j > Len(outputs) THEN st
    ELSE LET output == outputs[j] IN
         IF isUnspendable(output) THEN removeOutputs(st, outputs, j + 1)
         ELSE IF isRegister(output.covenant)
              THEN removeOutputs(unburn(st, output), outputs, j + 1)
         ELSE IF output.covenant.type >= types.UPDATE
                 /\ output.covenant.type <= types.REVOKE
              THEN removeOutputs(st, outputs, j + 1)
         ELSE removeOutputs(spend(st, output), outputs, j + 1)

RECURSIVE disconnectTxs(_, _, _, _)
disconnectTxs(st, txs, view, i) ==
    IF i > Len(txs) THEN st
    ELSE LET tx == txs[i]
             q  == IF spendsInputs(i) THEN unspendInputs(st, tx.inputs, view, 1)
                   ELSE st
         IN disconnectTxs(removeOutputs(q, tx.outputs, 1), txs, view, i + 1)

\* The state a rollback of `block` adopts: the clone with the block undone,
\* stamped with the previous block's hash.
removeEntryPending(live, block, view) ==
    commit(disconnectTxs(disconnect(clone(live), block), block.txs, view, 1),
           block.prevBlock)

\* The call that follows `call` in the block handler.
nextCall(call) ==
    CASE call = "saveEntry" -> "saveState"
      [] call = "saveState" -> "setHeight"
      [] call = "setHeight" -> "idle"

\* The height the handler hands to setHeight.
heightToSet(ev) ==
    IF ev.kind = "connect" THEN ev.entry.height ELSE ev.entry.height - 1

-----------------------------------------------------------------------------
(* Spec: the block pipeline. *)

Init ==
    /\ state = NewChainState
    /\ pending = NewChainState
    /\ hdbHeight = Null
    /\ db = [EmptyStore EXCEPT !.V = VersionRecord]
    /\ pc = "idle"
    /\ cur = Null
    /\ pre = NewChainState
    /\ result = "none"
    /\ chain = <<>>
    /\ unwound = 0
    /\ chartDataCurrentDate = 0
    /\ chartDataCurrent = <<>>
    /\ observed = <<>>
    /\ calls = 0
    /\ flushed = Null
    /\ network = "main"
    /\ ledgerTxs = <<>>
    /\ clientOpened = FALSE
    /\ handlers = <<>>
    /\ immediates = <<>>
    /\ delivered = Null
    /\ lastCall = "none"
    /\ opened = "open"
    /\ plugin = NewPlugin

\* HnscanDB.saveEntry(entry, block, view), called for a 'block connect'
\* notification. The function holds no await: it runs in one step.
SaveEntry ==
    /\ opened = "open" /\ pc = "idle"
    /\ Len(chain) < MaxHeight
    /\ \E block \in NewBlocks(chain) :
       \E missing \in {NullPrevout} \cup inputsOf(block) :
         LET view == viewFor(chain, block, missing)
             r    == saveEntry(state, block, view)
             ev   == [kind |-> "connect",
                      entry |-> [height |-> Len(chain) + 1, hash |-> hashOf(block)],
                      block |-> block, view |-> view]
         IN /\ pre' = state
            /\ state' = r.state
            /\ pending' = r.pending
            /\ IF r.threw
               THEN /\ result' = "threw"
                    /\ cur' = Null
                    /\ UNCHANGED <<pc, chain, unwound>>
               ELSE /\ result' = "ok"
                    /\ cur' = ev
                    /\ pc' = nextCall("saveEntry")
                    /\ chain' = Append(chain, [block |-> block, view |-> view,
                                               before |-> Counters(state)])
                    /\ unwound' = 0
    /\ UNCHANGED <<hdbHeight, db>>
    /\ UNCHANGED <<chartVars, openVars, addrVars, clientVars>>

\* The rollback of the tip block, for a 'block disconnect' notification.
RemoveEntry ==
    /\ opened = "open" /\ pc = "idle"
    /\ chain # <<>>
    /\ LET top == chain[Len(chain)]
       IN /\ cur' = [kind |-> "disconnect",
                     entry |-> [height |-> Len(chain), hash |-> hashOf(top.block)],
                     block |-> top.block, view |-> top.view,
                     before |-> top.before]
          /\ pre' = state
          /\ state' = removeEntryPending(state, top.block, top.view)
    /\ pending' = Null
    /\ result' = "ok"
    /\ pc' = nextCall("saveEntry")
    /\ chain' = SubSeq(chain, 1, Len(chain) - 1)
    /\ unwound' = unwound + 1
    /\ UNCHANGED <<hdbHeight, db>>
    /\ UNCHANGED <<chartVars, openVars, addrVars, clientVars>>

\* HnscanDB.saveState: one put of the live state into the chain-state slot.
SaveState ==
    /\ pc = "saveState"
    /\ db' = [db EXCEPT !.s = encodeState(state)]
    /\ pc' = nextCall("saveState")
    /\ UNCHANGED <<state, pending, hdbHeight, cur, pre, result, chain, unwound>>
    /\ UNCHANGED <<chartVars, openVars, addrVars, clientVars>>

\* HnscanDB.setHeight(height): one put of the height.
SetHeight ==
    /\ pc = "setHeight"
    /\ hdbHeight' = heightToSet(cur)
    /\ db' = [db EXCEPT !.H = fromU32(heightToSet(cur))]
    /\ pc' = nextCall("setHeight")
    /\ cur' = Null
    /\ UNCHANGED <<state, pending, pre, result, chain, unwound>>
    /\ UNCHANGED <<chartVars, openVars, addrVars, clientVars>>

\* The process stops at any point and is started again: the constructor
\* runs, then HnscanDB.open loads the persisted state. The ledger delivers
\* again the notification whose state change was not yet persisted.
Restart ==
    /\ opened = "open"
    /\ state' = openState(db)
    /\ pending' = NewChainState
    /\ hdbHeight' = Null
    /\ pc' = "idle"
    /\ cur' = Null
    /\ pre' = openState(db)
    /\ result' = "none"
    /\ chain' = IF pc # "saveState" THEN chain
                ELSE IF cur.kind = "connect"
                     THEN SubSeq(chain, 1, Len(chain) - 1)
                     ELSE Append(chain, [block |-> cur.block, view |-> cur.view,
                                         before |-> cur.before])
    /\ unwound' = 0
    /\ UNCHANGED db
    /\ UNCHANGED <<chartVars, openVars, addrVars, clientVars>>

Next == SaveEntry \/ RemoveEntry \/ SaveState \/ SetHeight \/ Restart

Spec == Init /\ [][Next]_vars

-----------------------------------------------------------------------------
(* The reference fold of a block, as sums over the block's inputs and       *)
(* outputs, against which saveEntry is compared.                            *)

SumOver(S, f(_)) ==
    LET RECURSIVE sum(_)
        sum(T) == IF T = {} THEN 0
                  ELSE LET x == CHOOSE y \in T : TRUE IN f(x) + sum(T \ {x})
    IN sum(S)

OutPositions(block) ==
    UNION { { <<i, j>> : j \in 1..Len(block.txs[i].outputs) } :
            i \in 1..Len(block.txs) }

InPositions(block) ==
    UNION { { <<i, k>> : k \in 1..Len(block.txs[i].inputs) } :
            i \in 2..Len(block.txs) }

OutAt(block, pos) == block.txs[pos[1]].outputs[pos[2]]

InAt(block, pos) == block.txs[pos[1]].inputs[pos[2]]

Spendable(o) == o.address # "nulldata" /\ o.covenant.type # types.REVOKE

\* Outputs whose value is burned / joins the circulating value.
Burns(o) == Spendable(o) /\ o.covenant.type = types.REGISTER

Circulates(o) ==
    Spendable(o) /\ o.covenant.type \in
        {types.NONE, types.CLAIM, types.OPEN, types.BID, types.REVEAL,
         types.REDEEM}

BurnedBy(block, txs) ==
    SumOver({pos \in OutPositions(block) : pos[1] \in txs /\ Burns(OutAt(block, pos))},
            LAMBDA pos : OutAt(block, pos).value)

AddedBy(block, txs) ==
    SumOver({pos \in OutPositions(block) :
                pos[1] \in txs /\ Circulates(OutAt(block, pos))},
            LAMBDA pos : OutAt(block, pos).value)

SpentBy(block, view) ==
    SumOver(InPositions(block), LAMBDA pos : view[InAt(block, pos)].value)

AllTxs(block) == 1..Len(block.txs)

RefConnect(prev, block, view) ==
    [tip    |-> hashOf(block),
     tx     |-> prev.tx + Len(block.txs),
     coin   |-> prev.coin - Cardinality(InPositions(block))
                + Cardinality({pos \in OutPositions(block) :
                                 Burns(OutAt(block, pos))
                                 \/ Circulates(OutAt(block, pos))}),
     value  |-> prev.value - SpentBy(block, view) + AddedBy(block, AllTxs(block)),
     burned |-> prev.burned + BurnedBy(block, AllTxs(block))]

\* The handler of a connected (disconnected) block is in flight.
Connecting == cur # Null /\ cur.kind = "connect"
Disconnecting == cur # Null /\ cur.kind = "disconnect"

\* The chain state the store holds (the zero state when the slot is empty).
Persisted == Counters(openState(db))

-----------------------------------------------------------------------------
(* Claims about the chain-state accumulator, checked under Spec. *)

\* C1: connecting blocks b1..bN and then rolling back bN..b1 returns exactly
\* the original chain state: every rollback leaves the counters and the tip
\* the live state had before that block was connected, and once every block
\* is rolled back the state is the one the ledger started from.
C1_RoundTrip ==
    /\ Disconnecting => Counters(state) = cur.before
    /\ (chain = <<>> /\ pc = "idle") => Counters(state) = Counters(NewChainState)

\* Two or more blocks were connected and all of them rolled back again.
C1_Witness == Disconnecting /\ chain = <<>> /\ unwound >= 2

\* C2: a successful saveEntry yields the reference fold of the block over the
\* previous state: tx grows by the number of transactions; every non-coinbase
\* input takes its previous output's value from value and one from coin;
\* every spendable register output adds its value to burned (and one to
\* coin), covenants update..revoke move nothing, every other spendable output
\* adds its value to value and one to coin.
C2_ReferenceFold ==
    Connecting => Counters(state) = RefConnect(Counters(pre), cur.block, cur.view)

\* A block with a two-input transaction paying a plain and an update output.
C2_Witness ==
    /\ Connecting
    /\ Len(cur.block.txs) = 2
    /\ Len(cur.block.txs[2].inputs) = 2
    /\ \E j \in 1..Len(cur.block.txs[2].outputs) :
         cur.block.txs[2].outputs[j].covenant.type = types.UPDATE

\* The block's non-coinbase transactions carry exactly one output, a
\* spendable register output.
OnlyRegister(block) ==
    LET rest == {pos \in OutPositions(block) : pos[1] > 1} IN
    /\ Cardinality(rest) = 1
    /\ \A pos \in rest : Burns(OutAt(block, pos))

RegisterValue(block) == BurnedBy(block, AllTxs(block) \ {1})

\* C3 as stated: such a block increases burnedValue by V and leaves
\* circulatingValue unchanged.
C3_Original ==
    (Connecting /\ OnlyRegister(cur.block)) =>
        /\ state.burned = pre.burned + RegisterValue(cur.block)
        /\ state.value = pre.value

\* C3 amended: connecting a block whose only non-coinbase output is a
\* spendable register output of value V (its coinbase burning nothing)
\* increases burnedValue by exactly V; V is not added to circulatingValue,
\* which changes by what the coinbase's outputs add minus the values of the
\* previous outputs the block spends.
C3_BurnAccounting ==
    (Connecting /\ OnlyRegister(cur.block) /\ BurnedBy(cur.block, {1}) = 0) =>
        /\ state.burned = pre.burned + RegisterValue(cur.block)
        /\ state.value = pre.value + AddedBy(cur.block, {1})
                           - SpentBy(cur.block, cur.view)

\* A block of this kind whose coinbase does not cancel what it spends.
C3_Witness ==
    /\ Connecting /\ OnlyRegister(cur.block)
    /\ state.burned > pre.burned
    /\ state.value # pre.value

\* C4: the live state is replaced by the updated clone only after the new
\* state is in the store: while the live state differs from the persisted
\* one, it is still the state the handler started from.
C4_AdoptAfterDurable ==
    Counters(state) # Persisted => Counters(state) = Counters(pre)

RECURSIVE DepthOf(_)
DepthOf(tip) == IF tip = ZERO_HASH THEN 0 ELSE 1 + DepthOf(tip[1])

\* C5: a block's writes are one atomic batch: the store never holds the
\* chain state of one block together with the height of another.
C5_AtomicBlockWrites == getHeight(db) = DepthOf(Persisted.tip)

\* C6: when the view cannot resolve a previous output, saveEntry fails and
\* the live state is exactly what it was before the call; the next saveEntry
\* folds its block over that unchanged state.
C6_FailedSaveEntry ==
    /\ [](result = "threw" => state = pre /\ pc = "idle" /\ cur = Null)
    /\ [][(result = "threw" /\ result' = "ok" /\ cur' # Null
             /\ cur'.kind = "connect")
            => Counters(state') = RefConnect(Counters(pre), cur'.block, cur'.view)]_vars

\* A failed saveEntry that had already spent one input in its clone.
C6_Witness ==
    result = "threw" /\ pending # Null /\ pending.coin < state.coin

\* C20: after every successful saveEntry the live state's tip is the hash of
\* that block, its committed flag is true and the pending slot is empty; the
\* clone the next saveEntry starts from has committed = false, and still has
\* when that saveEntry fails before its commit.
C20_CommittedTip ==
    /\ (result = "ok" /\ cur # Null /\ cur.kind = "connect") =>
          /\ state.tip = hashOf(cur.block)
          /\ state.committed = TRUE
          /\ pending = Null
    /\ clone(state).committed = FALSE
    /\ result = "threw" => (pending # Null /\ pending.committed = FALSE)

\* A saveEntry that failed on the clone of a committed live state.
C20_Witness ==
    /\ result = "threw"
    /\ state.committed = TRUE
    /\ state.tip # ZERO_HASH
    /\ pending # Null /\ pending.committed = FALSE

-----------------------------------------------------------------------------
(* SpecChart: the chart aggregator fed one point per block. *)

\* The metrics a point may carry (ChartData.fromBlockData of some block).
PointShapes ==
    { [difficulty |-> 1, transactions |-> 1, supply |-> 5, burned |-> 1,
       totalTx |-> 3],
      [difficulty |-> 2, transactions |-> 2, supply |-> 4, burned |-> 2,
       totalTx |-> 5] }

\* Block times: three within day 1 (t0, t0+1, t0+86399), then the first
\* second of day 2 and of day 3.
PointTimes ==
    { DaySeconds, DaySeconds + 1, 2 * DaySeconds - 1, 2 * DaySeconds,
      3 * DaySeconds }

Points ==
    { [time |-> t, difficulty |-> sh.difficulty,
       transactions |-> sh.transactions, supply |-> sh.supply,
       burned |-> sh.burned, totalTx |-> sh.totalTx] :
        t \in PointTimes, sh \in PointShapes }

InitChart == Init

\* One call of HnscanDB.setChartData(data).
SetChartData ==
    /\ calls < MaxPoints
    /\ calls' = calls + 1
    /\ \E data \in Points :
         LET r == setChartData(chartDataCurrentDate, chartDataCurrent, data)
         IN /\ chartDataCurrentDate' = r.date
            /\ chartDataCurrent' = r.buf
            /\ db' = [db EXCEPT !.d = putAll(@, r.puts, 1)]
            /\ observed' = Append(observed, data)
            /\ flushed' = IF r.puts = <<>> THEN Null
                          ELSE [puts |-> r.puts,
                                prevDate |-> chartDataCurrentDate,
                                buf |-> chartDataCurrent]
    /\ UNCHANGED <<chainVars, openVars, addrVars, clientVars>>

\* The process stops and is started again: the HnscanDB constructor resets the
\* aggregator (plugin.js 179-180); the daily records stay in the store.
RestartChart ==
    /\ observed # <<>>
    /\ chartDataCurrentDate' = 0
    /\ chartDataCurrent' = <<>>
    /\ observed' = <<>>
    /\ flushed' = Null
    /\ UNCHANGED <<calls, db, chainVars, openVars, addrVars, clientVars>>

NextChart == SetChartData \/ RestartChart

SpecChart == InitChart /\ [][NextChart]_vars

-----------------------------------------------------------------------------
(* Claims about the chart aggregator, checked under SpecChart. *)

\* The points seen before the last call, in order.
Earlier == SubSeq(observed, 1, Len(observed) - 1)

\* The points were handed over in non-decreasing day order.
InDayOrder ==
    \A i \in 1..Len(observed) : \A j \in i..Len(observed) :
        dayOf(observed[i].time) <= dayOf(observed[j].time)

SeqSum(sq, f(_)) == SumOver(1..Len(sq), LAMBDA i : f(sq[i]))

SeqMax(sq, f(_)) == CHOOSE m \in {f(sq[i]) : i \in 1..Len(sq)} :
                        \A i \in 1..Len(sq) : f(sq[i]) <= m

\* C8: a point of a later day makes setChartData persist exactly one daily
\* record, keyed by the bucket timestamp of the day being closed:
\* (currentBucketDay before the call) * 86400.
C8_FlushKey ==
    flushed # Null =>
        /\ Len(flushed.puts) = 1
        /\ flushed.puts[1][1] = flushed.prevDate * 86400

\* C9: the difficulty of a flushed daily record is the arithmetic mean of the
\* difficulties of the points observed for that day, each counted once
\* (points arriving in day order).
C9_MeanOfDay ==
    (flushed # Null /\ InDayOrder) =>
        LET ofDay == SelectSeq(Earlier,
                               LAMBDA pt : dayOf(pt.time) = flushed.prevDate)
            rec   == flushed.puts[1][2]
        IN rec.difficulty.num * Len(ofDay)
             = rec.difficulty.den * SeqSum(ofDay, LAMBDA pt : pt.difficulty)

\* C10 as stated: every field other than difficulty is the maximum of that
\* field over the buffered points.
C10_Original ==
    flushed # Null =>
        LET rec == flushed.puts[1][2] IN
        /\ rec.transactions = SeqMax(flushed.buf, LAMBDA pt : pt.transactions)
        /\ rec.supply = SeqMax(flushed.buf, LAMBDA pt : pt.supply)
        /\ rec.burned = SeqMax(flushed.buf, LAMBDA pt : pt.burned)
        /\ rec.totalTx = SeqMax(flushed.buf, LAMBDA pt : pt.totalTx)

\* C10 amended: in a flushed daily record supply, burned and total tx count
\* are the maximum of that field over the entries of the buffer, and
\* transactions is the sum of that field over the entries of the buffer.
C10_MaxAndSum ==
    flushed # Null =>
        LET rec == flushed.puts[1][2] IN
        /\ rec.transactions = SeqSum(flushed.buf, LAMBDA pt : pt.transactions)
        /\ rec.supply = SeqMax(flushed.buf, LAMBDA pt : pt.supply)
        /\ rec.burned = SeqMax(flushed.buf, LAMBDA pt : pt.burned)
        /\ rec.totalTx = SeqMax(flushed.buf, LAMBDA pt : pt.totalTx)

\* A flush of a buffer whose largest supply is not that of its last entry.
C10_Witness ==
    /\ flushed # Null
    /\ Len(flushed.buf) >= 3
    /\ flushed.buf[Len(flushed.buf)].supply
         < SeqMax(flushed.buf, LAMBDA pt : pt.supply)

\* C11: after setChartData calls with non-decreasing days the buffer holds
\* exactly the points observed for the current bucket day, each once and in
\* the order observed.
C11_BufferExact ==
    (observed # <<>> /\ InDayOrder) =>
        chartDataCurrent =
            SelectSeq(observed,
                      LAMBDA pt : dayOf(pt.time) = chartDataCurrentDate)

\* C12: a daily record is immutable once flushed: no call of setChartData
\* writes a day-bucket key the store already holds, and no step removes one.
C12_ImmutableOnceFlushed ==
    [][/\ DOMAIN db.d \subseteq DOMAIN db'.d
       /\ flushed' # Null =>
            \A i \in 1..Len(flushed'.puts) :
                flushed'.puts[i][1] \notin DOMAIN db.d]_vars

-----------------------------------------------------------------------------
(* SpecOpen: the life cycle of the HnscanDB object over a store that        *)
(* outlives the process.                                                    *)

\* The networks a process may be configured for, and network.magic (small
\* stand-ins for the 32-bit magic numbers of hsd's networks).
Networks == {"main", "testnet", "regtest"}

magicOf == [main |-> 1, testnet |-> 2, regtest |-> 3]

\* fromU32(this.network.magic), the value of the O slot.
magic(net) == fromU32(magicOf[net])

\* bdb's db.verify(key, name, version): writes the version record into an
\* empty slot, accepts the expected one, throws on any other.
verify(store) ==
    IF store.V = Null THEN [store |-> [store EXCEPT !.V = VersionRecord], threw |-> FALSE]
    ELSE [store |-> store, threw |-> store.V # VersionRecord]

\* Mutant of open: the persisted state is not loaded.
openWithoutState(store, live) ==
    LET v == verify(store) IN
    [store |-> v.store, state |-> live, threw |-> v.threw]

\* HnscanDB.open: db.open, db.verify, then the persisted state is loaded.
\* The network magic is not read.
open(store, live) ==
    LET v == verify(store) IN
    IF v.threw THEN [store |-> v.store, state |-> live, threw |-> TRUE]
    ELSE [store |-> v.store,
          state |-> IF getState(v.store) = Null THEN live ELSE getState(v.store),
          threw |-> FALSE]

\* HnscanDB.verifyNetwork: writes the magic into an empty slot, throws when
\* the stored magic is not the configured network's.
verifyNetwork(store, net) ==
    IF store.O = Null
    THEN [store |-> [store EXCEPT !.O = magic(net)], threw |-> FALSE]
    ELSE [store |-> store, threw |-> store.O # magic(net)]

\* The chain state after the first block, as an earlier run persisted it.
GenesisBlock == [prevBlock |-> ZERO_HASH, txs |-> <<Coinbase>>]

StateAfterGenesis == saveEntry(NewChainState, GenesisBlock, <<>>).state

\* The stores a process may find: never used, or left by an earlier run of
\* this or of another version of the layout.
InitOpen ==
    /\ state = NewChainState
    /\ pending = NewChainState
    /\ hdbHeight = Null
    /\ \E v \in {Null, VersionRecord, <<"hnscan", 1>>} :
       \E st \in {Null, encodeState(StateAfterGenesis)} :
       \E h \in {Null, fromU32(1)} :
         /\ v = Null => (st = Null /\ h = Null)
         /\ db = [EmptyStore EXCEPT !.V = v, !.s = st, !.H = h]
    /\ pc = "idle"
    /\ cur = Null
    /\ pre = NewChainState
    /\ result = "none"
    /\ chain = <<>>
    /\ unwound = 0
    /\ chartDataCurrentDate = 0
    /\ chartDataCurrent = <<>>
    /\ observed = <<>>
    /\ calls = 0
    /\ flushed = Null
    /\ network \in Networks
    /\ ledgerTxs = <<>>
    /\ clientOpened = FALSE
    /\ handlers = <<>>
    /\ immediates = <<>>
    /\ delivered = Null
    /\ lastCall = "none"
    /\ opened = "closed"
    /\ plugin = NewPlugin

\* HnscanDB.open()
Open ==
    /\ opened = "closed"
    /\ LET r == open(db, state)
       IN /\ db' = r.store
          /\ state' = r.state
          /\ opened' = IF r.threw THEN "failed" ELSE "open"
          /\ result' = IF r.threw THEN "threw" ELSE "ok"
    /\ cur' = [kind |-> "open"]
    /\ UNCHANGED <<pending, hdbHeight, pc, pre, chain, unwound, network, plugin>>
    /\ UNCHANGED <<chartVars, addrVars, clientVars>>

\* HnscanDB.verifyNetwork()
VerifyNetwork ==
    /\ opened = "open"
    /\ LET r == verifyNetwork(db, network)
       IN /\ db' = r.store
          /\ result' = IF r.threw THEN "threw" ELSE "ok"
    /\ cur' = [kind |-> "verifyNetwork"]
    /\ UNCHANGED <<state, pending, hdbHeight, pc, pre, chain, unwound>>
    /\ UNCHANGED <<chartVars, openVars, addrVars, clientVars>>

\* A read query on the open store: HnscanDB.getHeight().
Query ==
    /\ opened = "open"
    /\ cur' = [kind |-> "query", height |-> getHeight(db)]
    /\ result' = "ok"
    /\ UNCHANGED <<state, pending, hdbHeight, db, pc, pre, chain, unwound>>
    /\ UNCHANGED <<chartVars, openVars, addrVars, clientVars>>

\* HnscanDB.close()
Close ==
    /\ opened = "open"
    /\ opened' = "closed"
    /\ cur' = [kind |-> "close"]
    /\ result' = "ok"
    /\ UNCHANGED <<state, pending, hdbHeight, db, pc, pre, chain, unwound, network,
                   plugin>>
    /\ UNCHANGED <<chartVars, addrVars, clientVars>>

\* The process ends and a new one is started on the same store, configured
\* for any network: the HnscanDB constructor runs.
NewProcess ==
    /\ opened \in {"closed", "failed"}
    /\ cur # Null
    /\ \E net \in Networks : network' = net
    /\ opened' = "closed"
    /\ state' = NewChainState
    /\ pending' = NewChainState
    /\ hdbHeight' = Null
    /\ cur' = Null
    /\ result' = "none"
    /\ UNCHANGED <<db, pc, pre, chain, unwound, plugin>>
    /\ UNCHANGED <<chartVars, addrVars, clientVars>>

NextOpen == Open \/ VerifyNetwork \/ Query \/ Close \/ NewProcess

SpecOpen == InitOpen /\ [][NextOpen]_vars

-----------------------------------------------------------------------------
(* Claims about opening the store, checked under SpecOpen. *)

\* C7: opening the store when the persisted network magic differs from the
\* configured network's fails, and no query succeeds after such an open: the
\* store is never open, and never answers a query, over a foreign magic.
C7_NetworkMismatchFails ==
    (opened = "open" \/ (cur # Null /\ cur.kind = "query"))
        => (db.O = Null \/ db.O = magic(network))

\* The zero state: zero tip hash and all counters 0.
ZeroCounters ==
    [tip |-> <<>>, tx |-> 0, coin |-> 0, value |-> 0, burned |-> 0]

\* The chain-state record of the store, field by field (tip, tx, coin,
\* value, burned in the order ChainState.write puts them).
StoredCounters ==
    [tip |-> db.s[1], tx |-> db.s[2], coin |-> db.s[3], value |-> db.s[4],
     burned |-> db.s[5]]

\* C19: after HnscanDB.open completes the in-memory chain state equals the
\* chain-state record of the store if there is one, and the zero state
\* otherwise.
C19_OpenLoadsState ==
    opened = "open" =>
        Counters(state) = IF db.s = Null THEN ZeroCounters ELSE StoredCounters

\* An open, after a restart, over a store that holds the state of a
\* connected block.
C19_Witness ==
    /\ opened = "open"
    /\ db.s # Null
    /\ state.tx = 1 /\ state.value = 2
    /\ state.tip # ZERO_HASH

-----------------------------------------------------------------------------
(* The address index: the readers of lib/plugin.js over the o, i and t key  *)
(* families. A transaction id is <<first 8 bytes, remaining bytes>>; an     *)
(* output index counts from 0 as in the source.                             *)

\* The ledger connects at most this many indexed transactions.
MaxTxs == 3

\* Buffer.from(o.tx_hash, "hex").slice(0, 8)
first8(txid) == txid[1]

\* Byte order of two transaction ids.
TxLess(a, b) == a[1] < b[1] \/ (a[1] = b[1] /\ a[2] < b[2])

\* iter.each over the keys (prefix, txid) of one prefix: ascending byte
\* order of the txid.
RECURSIVE scan(_)
scan(S) ==
    IF S = {} THEN <<>>
    ELSE LET x == CHOOSE y \in S : \A z \in S \ {y} : TxLess(y[2], z[2])
         IN <<x>> \o scan(S \ {x})

\* The loop of _addressFunding over newtx.outputs: the first output paying
\* the address, or nothing (outputIndex and value stay undefined).
RECURSIVE firstOutputTo(_, _, _)
firstOutputTo(outputs, addr, i) ==
    IF i >= Len(outputs) THEN [output_index |-> Null, value |-> Null]
    ELSE IF outputs[i + 1].address = addr
         THEN [output_index |-> i, value |-> outputs[i + 1].value]
         ELSE firstOutputTo(outputs, addr, i + 1)

\* HnscanDB._addressFunding(addr): one record per key (address, txid) of the
\* o family, resolved through client.getTX.
_addressFunding(store, client, addr) ==
    LET keys == scan({ k \in DOMAIN store.o : k[1] = addr })
        rec(key) ==
            LET txid == key[2]
                hit  == firstOutputTo(client[txid].outputs, addr, 0)
            IN [tx_hash |-> txid, height |-> toU32(store.o[key]),
                output_index |-> hit.output_index, value |-> hit.value]
    IN [k \in 1..Len(keys) |-> rec(keys[k])]

\* HnscanDB._addressSpent(hash, funding): one record per funding record whose
\* (first 8 bytes of the txid, output index) has an entry in the i family.
RECURSIVE _addressSpent(_, _, _)
_addressSpent(store, funding, k) ==
    IF k > Len(funding) THEN <<>>
    ELSE LET o   == funding[k]
             key == <<first8(o.tx_hash), o.output_index>>
         IN IF key \in DOMAIN store.i
            THEN LET txHashX == store.i[key] IN
                 << [tx_hash |-> txHashX,
                     height |-> toU32(store.t[txHashX]),
                     funding_output |-> <<o.tx_hash, o.output_index>>,
                     value |-> o.value] >>
                 \o _addressSpent(store, funding, k + 1)
            ELSE _addressSpent(store, funding, k + 1)

\* The loops of addressBalance that total f.value and s.value.
RECURSIVE total(_, _)
total(records, k) ==
    IF k > Len(records) THEN 0
    ELSE records[k].value + total(records, k + 1)

\* Mutant of addressBalance: the unconfirmed balance ignores what was spent.
addressBalanceUnspentOnly(store, client, addr) ==
    LET fConfirmed  == _addressFunding(store, client, addr)
        sConfirmed  == _addressSpent(store, fConfirmed, 1)
        totalFunded == total(fConfirmed, 1)
        totalSpent  == total(sConfirmed, 1)
    IN [confirmed |-> totalFunded - totalSpent,
        unconfirmed |-> totalFunded,
        received |-> totalFunded,
        spent |-> totalSpent]

\* HnscanDB.addressBalance(addr)
addressBalance(store, client, addr) ==
    LET fConfirmed  == _addressFunding(store, client, addr)
        sConfirmed  == _addressSpent(store, fConfirmed, 1)
        totalFunded == total(fConfirmed, 1)
        totalSpent  == total(sConfirmed, 1)
    IN [confirmed |-> totalFunded - totalSpent,
        unconfirmed |-> totalFunded - totalSpent,
        received |-> totalFunded,
        spent |-> totalSpent]

\* Mutant of addressHistory: the spending transactions are left out.
addressHistoryFundingOnly(store, client, addr) ==
    LET fConfirmed == _addressFunding(store, client, addr)
    IN [k \in 1..Len(fConfirmed) |->
          [tx_hash |-> fConfirmed[k].tx_hash, height |-> fConfirmed[k].height]]

\* HnscanDB.addressHistory(addr)
addressHistory(store, client, addr) ==
    LET fConfirmed == _addressFunding(store, client, addr)
        sConfirmed == _addressSpent(store, fConfirmed, 1)
    IN [k \in 1..Len(fConfirmed) |->
          [tx_hash |-> fConfirmed[k].tx_hash, height |-> fConfirmed[k].height]]
       \o
       [k \in 1..Len(sConfirmed) |->
          [tx_hash |-> sConfirmed[k].tx_hash, height |-> sConfirmed[k].height]]

\* The loop of addressUnspent over sConfirmed: each spent record filters out
\* the entries with its funding transaction's hash.
RECURSIVE filterSpent(_, _, _)
filterSpent(txs, sConfirmed, k) ==
    IF k > Len(sConfirmed) THEN txs
    ELSE filterSpent(
           SelectSeq(txs, LAMBDA tx :
                            tx.tx_hash # sConfirmed[k].funding_output[1]),
           sConfirmed, k + 1)

\* Mutant of addressUnspent: nothing is filtered out.
addressUnspentAll(store, client, addr) ==
    LET fConfirmed == _addressFunding(store, client, addr)
    IN [k \in 1..Len(fConfirmed) |->
          [tx_hash |-> fConfirmed[k].tx_hash, height |-> fConfirmed[k].height,
           tx_pos |-> fConfirmed[k].output_index,
           value |-> fConfirmed[k].value]]

\* HnscanDB.addressUnspent(addr)
addressUnspent(store, client, addr) ==
    LET fConfirmed == _addressFunding(store, client, addr)
        sConfirmed == _addressSpent(store, fConfirmed, 1)
        txs == [k \in 1..Len(fConfirmed) |->
                  [tx_hash |-> fConfirmed[k].tx_hash,
                   height |-> fConfirmed[k].height,
                   tx_pos |-> fConfirmed[k].output_index,
                   value |-> fConfirmed[k].value]]
    IN filterSpent(txs, sConfirmed, 1)

-----------------------------------------------------------------------------
(* The writer of the address index. lib/indexer.js is not among the         *)
(* sources; the spec (4.2) gives what indexBlock and indexSpend write.      *)

RECURSIVE indexOutputs(_, _, _, _)
indexOutputs(o, tx, height, j) ==
    IF j > Len(tx.outputs) THEN o
    ELSE indexOutputs(
           (<<tx.outputs[j].address, tx.hash>> :> fromU32(height)) @@ o,
           tx, height, j + 1)

RECURSIVE indexInputs(_, _, _)
indexInputs(i, tx, k) ==
    IF k > Len(tx.inputs) THEN i
    ELSE indexInputs(
           (<<first8(tx.inputs[k].hash), tx.inputs[k].index>> :> tx.hash) @@ i,
           tx, k + 1)

\* indexBlock and indexSpend for one transaction connected at `height`.
indexTX(store, tx, height) ==
    [store EXCEPT !.o = indexOutputs(@, tx, height, 1),
                  !.i = indexInputs(@, tx, 1),
                  !.t = (tx.hash :> fromU32(height)) @@ @]

-----------------------------------------------------------------------------
(* SpecAddr: transactions are connected and indexed, addresses are queried. *)

\* The comparator of util.sortTXs: b.height - a.height.
compareTXs(a, b) == b.height - a.height

\* txs.sort(comparator) with a consistent comparator: each element is moved
\* in front of the elements it compares lower than.
RECURSIVE insertTX(_, _, _)
insertTX(a, element, j) ==
    IF j >= 1 /\ compareTXs(a[j], element) > 0
    THEN insertTX(a, element, j - 1)
    ELSE SubSeq(a, 1, j) \o <<element>> \o SubSeq(a, j + 1, Len(a))

RECURSIVE sortTXs(_)
sortTXs(txs) ==
    IF Len(txs) < 2 THEN txs
    ELSE LET front == sortTXs(SubSeq(txs, 1, Len(txs) - 1))
         IN insertTX(front, txs[Len(txs)], Len(front))

Addresses == {"a1", "a2"}

\* The id of the k-th transaction: either 8-byte prefix may occur, so two
\* transactions may share theirs.
TxIdChoices(k) == { <<1, k>>, <<2, k>> }

\* The output lists of a transaction: one output, or two paying one or two
\* addresses.
AddrOutputs ==
    { << [value |-> 1, address |-> "a1"] >>,
      << [value |-> 1, address |-> "a1"], [value |-> 2, address |-> "a1"] >>,
      << [value |-> 1, address |-> "a2"], [value |-> 2, address |-> "a1"] >> }

\* The outpoints the ledger's transactions created and those they consumed.
Outpoints(client) ==
    { [hash |-> h, index |-> j - 1] :
        h \in DOMAIN client, j \in 1..2 } \cap
    { op \in [hash : DOMAIN client, index : 0..1] :
        op.index < Len(client[op.hash].outputs) }

Consumed(client) ==
    UNION { { client[h].inputs[k] : k \in 1..Len(client[h].inputs) } :
            h \in DOMAIN client }

\* A transaction spends nothing (a coinbase) or one unspent outpoint.
AddrInputs(client) ==
    { <<>> } \cup { <<op>> : op \in Outpoints(client) \ Consumed(client) }

InitAddr ==
    /\ Init
    /\ cur = Null

\* A block with one transaction is connected: the ledger serves it and the
\* indexer writes its records.
IndexTX ==
    /\ Cardinality(DOMAIN ledgerTxs) < MaxTxs
    /\ \E hash \in TxIdChoices(Cardinality(DOMAIN ledgerTxs) + 1) :
       \E inputs \in AddrInputs(ledgerTxs) :
       \E outputs \in AddrOutputs :
         LET tx == [hash |-> hash, inputs |-> inputs, outputs |-> outputs]
             height == Cardinality(DOMAIN ledgerTxs) + 1
         IN /\ ledgerTxs' = (hash :> tx) @@ ledgerTxs
            /\ db' = indexTX(db, tx, height)
    /\ cur' = Null
    /\ UNCHANGED <<state, pending, hdbHeight, pc, pre, result, chain, unwound>>
    /\ UNCHANGED <<chartVars, openVars, clientVars>>

\* addressBalance, addressHistory and addressUnspent for one address, with
\* the funding and spent records they were computed from, and the history as
\* GET /address/:hash/history sorts it.
QueryAddress ==
    /\ cur = Null
    /\ \E addr \in Addresses :
         LET funding == _addressFunding(db, ledgerTxs, addr)
         IN cur' = [kind |-> "address", addr |-> addr,
                    funding |-> funding,
                    spent |-> _addressSpent(db, funding, 1),
                    balance |-> addressBalance(db, ledgerTxs, addr),
                    history |-> addressHistory(db, ledgerTxs, addr),
                    sorted |-> sortTXs(addressHistory(db, ledgerTxs, addr)),
                    unspent |-> addressUnspent(db, ledgerTxs, addr)]
    /\ UNCHANGED <<state, pending, hdbHeight, db, pc, pre, result, chain, unwound>>
    /\ UNCHANGED <<chartVars, openVars, addrVars, clientVars>>

NextAddr == IndexTX \/ QueryAddress

SpecAddr == InitAddr /\ [][NextAddr]_vars

-----------------------------------------------------------------------------
(* Claims about the address queries, checked under SpecAddr. *)

Asked == cur # Null /\ cur.kind = "address"

\* C13: addressBalance returns received = the sum of the values of the
\* address's funding records, spent = the sum of the values of its spent
\* records, and confirmed = unconfirmed = received - spent.
C13_Balance ==
    Asked =>
        LET received == SeqSum(cur.funding, LAMBDA f : f.value)
            spent    == SeqSum(cur.spent, LAMBDA sp : sp.value)
        IN /\ cur.balance.received = received
           /\ cur.balance.spent = spent
           /\ cur.balance.confirmed = received - spent
           /\ cur.balance.unconfirmed = received - spent

\* A balance of an address that received twice and spent once.
C13_Witness ==
    /\ Asked
    /\ Len(cur.funding) >= 2
    /\ Len(cur.spent) = 1
    /\ cur.balance.spent > 0
    /\ cur.balance.confirmed > 0

\* The (txid, outputIndex) pairs of a sequence of spent records.
SpentPairs(spent) == { spent[k].funding_output : k \in 1..Len(spent) }

\* C14: addressUnspent returns exactly the funding records whose
\* (txid, outputIndex) is not the funding-output pair of a spent record, in
\* order, and their number is the funding count minus the spent count.
C14_Unspent ==
    Asked =>
        LET keep == SelectSeq(cur.funding, LAMBDA f :
                       <<f.tx_hash, f.output_index>> \notin SpentPairs(cur.spent))
        IN /\ Len(cur.unspent) = Len(keep)
           /\ \A k \in 1..Len(keep) :
                /\ cur.unspent[k].tx_hash = keep[k].tx_hash
                /\ cur.unspent[k].tx_pos = keep[k].output_index
                /\ cur.unspent[k].height = keep[k].height
                /\ cur.unspent[k].value = keep[k].value
           /\ Len(cur.unspent) = Len(cur.funding) - Len(cur.spent)

\* An address with a spent and an unspent funding record.
C14_Witness ==
    /\ Asked
    /\ Len(cur.spent) >= 1
    /\ Len(cur.unspent) >= 1

\* C15: addressHistory returns the funding records followed by the spent
\* records, each reduced to (tx hash, height), and nothing else.
C15_History ==
    Asked =>
        /\ Len(cur.history) = Len(cur.funding) + Len(cur.spent)
        /\ \A k \in 1..Len(cur.funding) :
             cur.history[k] = [tx_hash |-> cur.funding[k].tx_hash,
                               height |-> cur.funding[k].height]
        /\ \A k \in 1..Len(cur.spent) :
             cur.history[Len(cur.funding) + k]
                = [tx_hash |-> cur.spent[k].tx_hash,
                   height |-> cur.spent[k].height]

\* A history with a funding and a spending transaction of different heights.
C15_Witness ==
    /\ Asked
    /\ Len(cur.funding) >= 1
    /\ Len(cur.spent) >= 1
    /\ cur.spent[1].height > cur.funding[1].height

-----------------------------------------------------------------------------
(* The name index: HnscanDB.nameHistory (lib/plugin.js) and the order       *)
(* Hnscan.getNameHistory (lib/hnscan.js) gives its records.                 *)

\* The name index holds at most this many records.
MaxNameRecords == 3

\* HnscanDB.nameHistory(nameHash): the records of the n family under the
\* name, in ascending key (txid) order.
nameHistory(store, nameHash) ==
    LET keys == scan({ k \in DOMAIN store.n : k[1] = nameHash })
    IN [k \in 1..Len(keys) |->
          [tx_hash |-> keys[k][2], height |-> toU32(store.n[keys[k]])]]

\* The comparator of getNameHistory: (a, b) => (a.height < b.height ? 1 : -1).
\* It never returns 0.
compareHeights(a, b) == IF a.height < b.height THEN 1 ELSE -1

\* Mutant of compareHeights: ascending.
compareHeightsAscending(a, b) == IF a.height > b.height THEN 1 ELSE -1

\* Array.prototype.sort leaves the order implementation-defined when the
\* comparator is not consistent. The two implementations Node.js has shipped,
\* for arrays this short:

\* V8 before 7.0 (InsertionSort, arrays of at most 10 elements).
RECURSIVE insertFromBack(_, _, _)
insertFromBack(a, element, j) ==
    IF j >= 1 /\ compareHeights(a[j], element) > 0
    THEN insertFromBack(a, element, j - 1)
    ELSE SubSeq(a, 1, j) \o <<element>> \o SubSeq(a, j + 1, Len(a))

RECURSIVE insertionSort(_, _)
insertionSort(a, i) ==
    IF i > Len(a) THEN a
    ELSE insertionSort(
           insertFromBack(SubSeq(a, 1, i - 1), a[i], i - 1)
             \o SubSeq(a, i + 1, Len(a)),
           i + 1)

\* V8 from 7.0 (TimSort; below 64 elements: one run, then binary insertion).
reverse(a) == [k \in 1..Len(a) |-> a[Len(a) + 1 - k]]

\* CountAndMakeRun: the length of the run that starts the array.
RECURSIVE runLength(_, _, _)
runLength(a, isDescending, idx) ==
    IF idx > Len(a) THEN Len(a)
    ELSE LET order == compareHeights(a[idx], a[idx - 1]) IN
         IF (isDescending /\ order >= 0) \/ (~isDescending /\ order < 0)
         THEN idx - 1
         ELSE runLength(a, isDescending, idx + 1)

countAndMakeRun(a) ==
    IF Len(a) < 2 THEN [a |-> a, run |-> Len(a)]
    ELSE LET isDescending == compareHeights(a[2], a[1]) < 0
             run == runLength(a, isDescending, 3)
         IN [a |-> IF isDescending
                   THEN reverse(SubSeq(a, 1, run)) \o SubSeq(a, run + 1, Len(a))
                   ELSE a,
             run |-> run]

\* The binary search of BinaryInsertionSort, over 0-based [left, right).
RECURSIVE searchLeft(_, _, _, _)
searchLeft(a, pivot, left, right) ==
    IF left >= right THEN left
    ELSE LET mid == left + ((right - left) \div 2) IN
         IF compareHeights(pivot, a[mid + 1]) < 0
         THEN searchLeft(a, pivot, left, mid)
         ELSE searchLeft(a, pivot, mid + 1, right)

RECURSIVE binaryInsertionSort(_, _)
binaryInsertionSort(a, start) ==
    IF start >= Len(a) THEN a
    ELSE LET pivot == a[start + 1]
             left  == searchLeft(a, pivot, 0, start)
         IN binaryInsertionSort(
              SubSeq(a, 1, left) \o <<pivot>> \o SubSeq(a, left + 1, start)
                \o SubSeq(a, start + 2, Len(a)),
              start + 1)

timSort(a) ==
    IF Len(a) < 2 THEN a
    ELSE LET r == countAndMakeRun(a) IN binaryInsertionSort(r.a, r.run)

Engines == {"insertion", "timsort"}

\* entireList.sort(comparator) on the given engine.
sort(a, engine) ==
    IF engine = "insertion" THEN insertionSort(a, 2) ELSE timSort(a)

\* Hnscan.getNameHistory up to the slice: the sorted records and the page.
getNameHistory(store, nameHash, offset, limit, engine) ==
    LET entireList == sort(nameHistory(store, nameHash), engine)
    IN [total |-> Len(entireList),
        entireList |-> entireList,
        list |-> SubSeq(entireList, offset + 1,
                        IF offset + limit < Len(entireList)
                        THEN offset + limit ELSE Len(entireList))]

\* The writer of the name index (lib/indexer.js is not among the sources;
\* spec 4.3): one record (nameHash, txid) -> height per name transaction.
indexName(store, nameHash, txid, height) ==
    [store EXCEPT !.n = (<<nameHash, txid>> :> fromU32(height)) @@ @]

Names == {"n1"}

InitName ==
    /\ Init
    /\ cur = Null

\* A transaction on a name is connected, in the tip block or in a new one.
IndexName ==
    /\ Cardinality(DOMAIN db.n) < MaxNameRecords
    /\ \E nameHash \in Names :
       \E txid \in TxIdChoices(Cardinality(DOMAIN db.n) + 1) :
       \E height \in {getHeight(db), getHeight(db) + 1} \ {0} :
         db' = [indexName(db, nameHash, txid, height)
                  EXCEPT !.H = fromU32(height)]
    /\ cur' = Null
    /\ UNCHANGED <<state, pending, hdbHeight, pc, pre, result, chain, unwound>>
    /\ UNCHANGED <<chartVars, openVars, addrVars, clientVars>>

\* getNameHistory(name) with the default offset 0 and limit 25.
QueryName ==
    /\ cur = Null
    /\ \E nameHash \in Names : \E engine \in Engines :
         cur' = [kind |-> "name", engine |-> engine,
                 scanned |-> nameHistory(db, nameHash),
                 answer |-> getNameHistory(db, nameHash, 0, 25, engine)]
    /\ UNCHANGED <<state, pending, hdbHeight, db, pc, pre, result, chain, unwound>>
    /\ UNCHANGED <<chartVars, openVars, addrVars, clientVars>>

NextName == IndexName \/ QueryName

SpecName == InitName /\ [][NextName]_vars

-----------------------------------------------------------------------------
(* Claims about the name history, checked under SpecName. *)

NameAsked == cur # Null /\ cur.kind = "name"

\* The position of a record in a sequence of records with distinct hashes.
PosIn(sq, rec) == CHOOSE k \in 1..Len(sq) : sq[k].tx_hash = rec.tx_hash

\* C16: getNameHistory orders the records by height descending, and records
\* of equal height keep their store scan order.
C16_DescendingStable ==
    NameAsked =>
        LET out == cur.answer.entireList IN
        /\ Len(out) = Len(cur.scanned)
        /\ \A i \in 1..Len(out) : \A j \in (i + 1)..Len(out) :
             /\ out[i].height >= out[j].height
             /\ out[i].height = out[j].height =>
                  PosIn(cur.scanned, out[i]) < PosIn(cur.scanned, out[j])

-----------------------------------------------------------------------------
(* The chart series queries of lib/plugin.js over the d key family.         *)

\* The series specification observes at most this many points.
MaxSeriesPoints == 3

\* ChartData.read: the stored fields; the time is not stored and reads as 0.
decodeChart(raw) ==
    [time |-> 0, difficulty |-> raw.difficulty,
     transactions |-> raw.transactions, supply |-> raw.supply,
     burned |-> raw.burned, totalTx |-> raw.totalTx]

\* Amount.coin(value): base units as a decimal number of coins with six
\* places, kept as <<whole coins, millionths>>.
coin(value) == <<value \div 1000000, value % 1000000>>

\* The keys of a set of day-bucket keys in ascending order.
RECURSIVE ascending(_)
ascending(S) ==
    IF S = {} THEN <<>>
    ELSE LET x == CHOOSE y \in S : \A z \in S \ {y} : y < z
         IN <<x>> \o ascending(S \ {x})

\* Mutant of iterator: the upper end of the range is ignored.
iteratorOpenEnd(d, gte, lte) == ascending({ k \in DOMAIN d : gte <= k })

\* db.iterator({gte: layout.d.min(startTime), lte: layout.d.max(endTime)}):
\* the keys of the range in ascending order.
iterator(d, gte, lte) ==
    ascending({ k \in DOMAIN d : gte <= k /\ k <= lte })

\* iter.each of a series query: the decoded (time, chartData) pairs.
each(store, startTime, endTime) ==
    LET keys == iterator(store.d, startTime, endTime)
    IN [k \in 1..Len(keys) |->
          [time |-> keys[k], chartData |-> decodeChart(store.d[keys[k]])]]

getDifficultySeries(store, startTime, endTime) ==
    LET rows == each(store, startTime, endTime)
    IN [k \in 1..Len(rows) |->
          [date |-> rows[k].time * 1000,
           value |-> rows[k].chartData.difficulty]]

getTransactionSeries(store, startTime, endTime) ==
    LET rows == each(store, startTime, endTime)
    IN [k \in 1..Len(rows) |->
          [date |-> rows[k].time * 1000,
           value |-> rows[k].chartData.transactions]]

getTotalTransactionSeries(store, startTime, endTime) ==
    LET rows == each(store, startTime, endTime)
    IN [k \in 1..Len(rows) |->
          [date |-> rows[k].time * 1000,
           value |-> rows[k].chartData.totalTx]]

getSupplySeries(store, startTime, endTime) ==
    LET rows == each(store, startTime, endTime)
    IN [k \in 1..Len(rows) |->
          [date |-> rows[k].time * 1000,
           value |-> coin(rows[k].chartData.supply)]]

getBurnedSeries(store, startTime, endTime) ==
    LET rows == each(store, startTime, endTime)
    IN [k \in 1..Len(rows) |->
          [date |-> rows[k].time * 1000,
           value |-> coin(rows[k].chartData.burned)]]

SeriesNames ==
    {"difficulty", "transactions", "totalTransactions", "supply", "burned"}

\* The (startTime, endTime) pairs asked: everything, one key alone, a range
\* that starts just past a key, and an empty range.
Ranges ==
    { <<0, 3 * DaySeconds>>, <<2 * DaySeconds, 2 * DaySeconds>>,
      <<2 * DaySeconds + 1, 3 * DaySeconds>>, <<3 * DaySeconds, 2 * DaySeconds>> }

InitSeries ==
    /\ Init
    /\ cur = Null

\* setChartData for the point of a connected block.
ObservePoint ==
    /\ cur = Null
    /\ calls < MaxSeriesPoints
    /\ SetChartData

\* One of the five series queries.
QuerySeries ==
    /\ cur = Null
    /\ \E series \in SeriesNames : \E range \in Ranges :
         cur' = [kind |-> "series", series |-> series,
                 startTime |-> range[1], endTime |-> range[2],
                 answer |->
                   CASE series = "difficulty" ->
                          getDifficultySeries(db, range[1], range[2])
                     [] series = "transactions" ->
                          getTransactionSeries(db, range[1], range[2])
                     [] series = "totalTransactions" ->
                          getTotalTransactionSeries(db, range[1], range[2])
                     [] series = "supply" ->
                          getSupplySeries(db, range[1], range[2])
                     [] series = "burned" ->
                          getBurnedSeries(db, range[1], range[2])]
    /\ UNCHANGED <<state, pending, hdbHeight, db, pc, pre, result, chain, unwound>>
    /\ UNCHANGED <<chartVars, openVars, addrVars, clientVars>>

NextSeries == ObservePoint \/ QuerySeries

SpecSeries == InitSeries /\ [][NextSeries]_vars

-----------------------------------------------------------------------------
(* Claims about the series queries, checked under SpecSeries. *)

SeriesAsked == cur # Null /\ cur.kind = "series"

\* The keys of the persisted daily records within the range asked.
KeysAsked == { k \in DOMAIN db.d : cur.startTime <= k /\ k <= cur.endTime }

\* The stored metric a series is about.
MetricOf(series, rec) ==
    CASE series = "difficulty" -> rec.difficulty
      [] series = "transactions" -> rec.transactions
      [] series = "totalTransactions" -> rec.totalTx
      [] series = "supply" -> rec.supply
      [] series = "burned" -> rec.burned

\* One tick per record of the range and no other, in ascending key order.
TicksMatchKeys(keyOf(_)) ==
    LET out == cur.answer IN
    /\ Len(out) = Cardinality(KeysAsked)
    /\ \A k \in 1..Len(out) : keyOf(out[k]) \in KeysAsked
    /\ \A i \in 1..Len(out) : \A j \in (i + 1)..Len(out) :
         keyOf(out[i]) < keyOf(out[j])

\* C17 as stated: the tick's date is the record's key and its value the
\* stored metric.
C17_Original ==
    SeriesAsked =>
        /\ TicksMatchKeys(LAMBDA tick : tick.date)
        /\ \A k \in 1..Len(cur.answer) :
             cur.answer[k].value
               = MetricOf(cur.series, db.d[cur.answer[k].date])

\* C17 amended: each series query returns one tick for every persisted daily
\* record whose key lies in [startTime, endTime] and for no other, in
\* ascending key order; the tick's date is the key times 1000, its value the
\* stored metric, which for supply and burned is converted from base units
\* to coins.
C17_Series ==
    SeriesAsked =>
        /\ \A k \in 1..Len(cur.answer) : cur.answer[k].date % 1000 = 0
        /\ TicksMatchKeys(LAMBDA tick : tick.date \div 1000)
        /\ \A k \in 1..Len(cur.answer) :
             LET stored == MetricOf(cur.series,
                                    db.d[cur.answer[k].date \div 1000])
             IN cur.answer[k].value
                  = IF cur.series \in {"supply", "burned"}
                    THEN <<stored \div 1000000, stored % 1000000>>
                    ELSE stored

\* A query that returns one of two persisted records and leaves out the other.
C17_Witness ==
    /\ SeriesAsked
    /\ Cardinality(DOMAIN db.d) = 2
    /\ Len(cur.answer) = 1
    /\ cur.series = "supply"

-----------------------------------------------------------------------------
(* SpecNotify: the chain's notifications as ChainClient forwards them       *)
(* (lib/chainclient.js) and the handlers they start. ChainClient's chain    *)
(* listeners are plain functions that call emit: nothing waits for the      *)
(* promise of an asynchronous listener. A handler runs without yielding to  *)
(* the chain up to the first store write it awaits (setHeight, plugin.js    *)
(* 302); its puts reach the store later, in the order issued.               *)

\* At most this many handlers are in flight.
MaxInFlight == 2

\* Mutant of forwards: the opened flag is not consulted.
forwardsAlways(isOpen) == TRUE

\* ChainClient.init: a chain event is forwarded only while the client is open.
forwards(isOpen) == isOpen

\* The puts a block handler issues: saveState (plugin.js 294), then setHeight
\* (plugin.js 302).
blockPuts(live, height) ==
    << <<"s", encodeState(live)>>, <<"H", fromU32(height)>> >>

\* db.put(key, value) reaching the store.
put(store, kv) ==
    IF kv[1] = "s" THEN [store EXCEPT !.s = kv[2]]
    ELSE [store EXCEPT !.H = kv[2]]

InitNotify == Init

\* ChainClient.open()
OpenClient ==
    /\ ~clientOpened
    /\ clientOpened' = TRUE
    /\ UNCHANGED <<state, pending, hdbHeight, db, pc, cur, pre, result, chain,
                   unwound, handlers>>
    /\ UNCHANGED <<chartVars, openVars, addrVars, deferVars>>

\* The chain connects a block and fires 'connect'; if forwarded as
\* 'block connect', the handler runs saveEntry, issues the put of saveState
\* and enters setHeight. (A reset leaves the counters in place, so they are
\* capped to keep the state space finite.)
ChainConnect ==
    /\ Len(chain) < MaxHeight
    /\ Len(handlers) < MaxInFlight
    /\ state.tx <= MaxHeight
    /\ \E block \in { b \in NewBlocks(chain) : Len(b.txs) = 1 } :
         LET view   == viewFor(chain, block, NullPrevout)
             height == Len(chain) + 1
             r      == saveEntry(state, block, view)
         IN /\ chain' = Append(chain, [block |-> block, view |-> view,
                                       before |-> Counters(state)])
            /\ IF forwards(clientOpened)
               THEN /\ pre' = state
                    /\ state' = r.state
                    /\ pending' = r.pending
                    /\ hdbHeight' = height
                    /\ handlers' = Append(handlers,
                                          [kind |-> "connect", height |-> height,
                                           puts |-> blockPuts(r.state, height)])
               ELSE UNCHANGED <<pre, state, pending, hdbHeight, handlers>>
    /\ UNCHANGED <<db, pc, cur, result, unwound, clientOpened>>
    /\ UNCHANGED <<chartVars, openVars, addrVars, deferVars>>

\* The chain disconnects its tip and fires 'disconnect'; if forwarded, the
\* handler rolls the block back and issues its puts.
ChainDisconnect ==
    /\ chain # <<>>
    /\ Len(handlers) < MaxInFlight
    /\ LET top    == chain[Len(chain)]
           height == Len(chain)
           st     == removeEntryPending(state, top.block, top.view)
       IN /\ chain' = SubSeq(chain, 1, Len(chain) - 1)
          /\ IF forwards(clientOpened)
             THEN /\ pre' = state
                  /\ state' = st
                  /\ pending' = Null
                  /\ hdbHeight' = height - 1
                  /\ handlers' = Append(handlers,
                                        [kind |-> "disconnect", height |-> height,
                                         puts |-> blockPuts(st, height - 1)])
             ELSE UNCHANGED <<pre, state, pending, hdbHeight, handlers>>
    /\ UNCHANGED <<db, pc, cur, result, unwound, clientOpened>>
    /\ UNCHANGED <<chartVars, openVars, addrVars, deferVars>>

\* The chain is reset to an earlier tip and fires 'reset'; if forwarded as
\* 'chain reset', the handler sets the height to the tip's.
ChainReset ==
    /\ chain # <<>>
    /\ Len(handlers) < MaxInFlight
    /\ \E tip \in 0..(Len(chain) - 1) :
         /\ chain' = SubSeq(chain, 1, tip)
         /\ IF forwards(clientOpened)
            THEN /\ hdbHeight' = tip
                 /\ handlers' = Append(handlers,
                                       [kind |-> "reset", height |-> tip,
                                        puts |-> << <<"H", fromU32(tip)>> >>])
            ELSE UNCHANGED <<hdbHeight, handlers>>
    /\ UNCHANGED <<state, pending, db, pc, cur, pre, result, unwound,
                   clientOpened>>
    /\ UNCHANGED <<chartVars, openVars, addrVars, deferVars>>

\* The oldest put in flight reaches the store; a handler whose last put has
\* landed is complete.
PutLands ==
    /\ handlers # <<>>
    /\ LET h == handlers[1]
       IN /\ db' = put(db, h.puts[1])
          /\ handlers' = IF Len(h.puts) = 1 THEN Tail(handlers)
                         ELSE <<[h EXCEPT !.puts = Tail(@)]>> \o Tail(handlers)
    /\ UNCHANGED <<state, pending, hdbHeight, pc, cur, pre, result, chain,
                   unwound, clientOpened>>
    /\ UNCHANGED <<chartVars, openVars, addrVars, deferVars>>

NextNotify ==
    OpenClient \/ ChainConnect \/ ChainDisconnect \/ ChainReset \/ PutLands

SpecNotify == InitNotify /\ [][NextNotify]_vars

-----------------------------------------------------------------------------
(* Claims about the handling of notifications, checked under SpecNotify. *)

\* C18: notifications are handled strictly one at a time: the processing of
\* one notification, its store writes included, completes before the
\* processing of the next begins, so no two handlers are ever in flight.
C18_OneAtATime == Len(handlers) <= 1

-----------------------------------------------------------------------------
(* Claims about util.sortTXs, checked under SpecAddr. *)

\* The number of records of a sequence equal to a given record.
Occurrences(sq, rec) == Cardinality({ k \in 1..Len(sq) : sq[k] = rec })

\* C21: util.sortTXs sorts in ascending order of height: every adjacent pair
\* of the result has the earlier height at most the later one, and the
\* result is a permutation of the input.
C21_Ascending ==
    Asked =>
        /\ \A k \in 1..(Len(cur.sorted) - 1) :
             cur.sorted[k].height <= cur.sorted[k + 1].height
        /\ Len(cur.sorted) = Len(cur.history)
        /\ \A k \in 1..Len(cur.history) :
             Occurrences(cur.sorted, cur.history[k])
               = Occurrences(cur.history, cur.history[k])

-----------------------------------------------------------------------------
(* Claims about the spend pointers, checked under SpecAddr. *)

\* C23: _addressSpent reports a funding record as spent only if a
\* transaction of the ledger consumed that exact output (full txid, output
\* index), also when two funding transactions share their first 8 bytes.
C23_ExactOutput ==
    Asked =>
        \A k \in 1..Len(cur.spent) :
            [hash |-> cur.spent[k].funding_output[1],
             index |-> cur.spent[k].funding_output[2]] \in Consumed(ledgerTxs)

-----------------------------------------------------------------------------
(* SpecCoins: the ledger connects blocks whose transaction spends name      *)
(* outputs. Every input spends, once, a coin an earlier block created.      *)

\* The ledger of SpecCoins never grows past this many blocks.
MaxCoinBlocks == 4

\* The output lists of a transaction on names: a registration, or two
\* updates.
NameTemplates ==
    { <<Out(2, types.REGISTER, "a1")>>,
      <<Out(1, types.UPDATE, "a1"), Out(1, types.UPDATE, "a2")>> }

\* The coinbase alone, or the coinbase and one transaction that spends one
\* or two unspent coins and pays out no more than it spends.
NameBlocks(ch) ==
    { [prevBlock |-> tipOf(ch), txs |-> <<Coinbase>>] } \cup
    UNION { { [prevBlock |-> tipOf(ch),
               txs |-> <<Coinbase, [inputs |-> ins, outputs |-> outs]>>] :
                outs \in { o \in NameTemplates :
                             sumOutputs(o, 1) <=
                               sumValues(ch, {ins[k] : k \in 1..Len(ins)}) } } :
            ins \in InputChoices(utxoOf(ch)) }

InitCoins == Init

\* saveEntry for a connected block whose view resolves every input.
ConnectNames ==
    /\ Len(chain) < MaxCoinBlocks
    /\ \E block \in NameBlocks(chain) :
         LET view == viewFor(chain, block, NullPrevout)
             r    == saveEntry(state, block, view)
         IN /\ pre' = state
            /\ state' = r.state
            /\ pending' = r.pending
            /\ result' = IF r.threw THEN "threw" ELSE "ok"
            /\ chain' = Append(chain, [block |-> block, view |-> view,
                                       before |-> Counters(state)])
    /\ UNCHANGED <<hdbHeight, db, pc, cur, unwound>>
    /\ UNCHANGED <<chartVars, openVars, addrVars, clientVars>>

NextCoins == ConnectNames

SpecCoins == InitCoins /\ [][NextCoins]_vars

-----------------------------------------------------------------------------
(* Claims about the coin count and the circulating value, checked under    *)
(* SpecCoins.                                                               *)

\* C22: after connecting blocks in which every non-coinbase input spends,
\* exactly once, an output an earlier transaction created, the coin count
\* and the circulating value of the chain state are never negative.
C22_NeverNegative == state.coin >= 0 /\ state.value >= 0

-----------------------------------------------------------------------------
(* SpecClient: ChainClient on its own (lib/chainclient.js): open() and      *)
(* close() called in any order, the chain firing its events, and the        *)
(* callbacks queued with setImmediate running later, oldest first.          *)

\* At most this many setImmediate callbacks are queued.
MaxImmediates == 3

ChainEvents == {"connect", "disconnect", "reset"}

\* The name under which ChainClient.init re-emits a chain event.
emitAs(event) ==
    CASE event = "connect"    -> "block connect"
      [] event = "disconnect" -> "block disconnect"
      [] event = "reset"      -> "chain reset"

\* The listener of a chain event with its arguments: the emissions it
\* makes, none when it returns early.
listener(isOpen, event, args) ==
    IF forwards(isOpen) THEN << [name |-> emitAs(event), args |-> args] >>
    ELSE <<>>

\* ChainClient.open: the assertion, the flag, the callback queued.
clientOpen(isOpen, queue) ==
    IF isOpen THEN [threw |-> TRUE, opened |-> isOpen, queue |-> queue]
    ELSE [threw |-> FALSE, opened |-> TRUE, queue |-> Append(queue, "connect")]

\* ChainClient.close
clientClose(isOpen, queue) ==
    IF ~isOpen THEN [threw |-> TRUE, opened |-> isOpen, queue |-> queue]
    ELSE [threw |-> FALSE, opened |-> FALSE,
          queue |-> Append(queue, "disconnect")]

InitClient == Init

\* open() or close() is called, whatever the state of the client.
CallClient ==
    /\ Len(immediates) < MaxImmediates
    /\ \E name \in {"open", "close"} :
         LET r == IF name = "open" THEN clientOpen(clientOpened, immediates)
                  ELSE clientClose(clientOpened, immediates)
         IN /\ clientOpened' = r.opened
            /\ immediates' = r.queue
            /\ delivered' = [kind |-> "call", name |-> name, threw |-> r.threw,
                             before |-> clientOpened, after |-> r.opened]
            /\ lastCall' = IF r.threw THEN lastCall ELSE name
    /\ UNCHANGED <<chainVars, db, handlers>>
    /\ UNCHANGED <<chartVars, openVars, addrVars>>

\* The chain fires an event (its arguments stand for the entry, block and
\* view, or the tip, it passes) and the listener of ChainClient.init runs.
ChainFires ==
    /\ \E event \in ChainEvents : \E height \in 0..MaxHeight :
         delivered' = [kind |-> "chain", event |-> event, args |-> height,
                       opened |-> clientOpened,
                       emitted |-> listener(clientOpened, event, height)]
    /\ UNCHANGED <<chainVars, db, clientOpened, handlers, immediates,
                   lastCall>>
    /\ UNCHANGED <<chartVars, openVars, addrVars>>

\* The oldest setImmediate callback runs: this.emit("connect") or
\* this.emit("disconnect").
RunImmediate ==
    /\ immediates # <<>>
    /\ delivered' = [kind |-> "deferred", event |-> Head(immediates),
                     opened |-> clientOpened]
    /\ immediates' = Tail(immediates)
    /\ UNCHANGED <<chainVars, db, clientOpened, handlers, lastCall>>
    /\ UNCHANGED <<chartVars, openVars, addrVars>>

NextClient == CallClient \/ ChainFires \/ RunImmediate

SpecClient == InitClient /\ [][NextClient]_vars

-----------------------------------------------------------------------------
(* Claims about ChainClient, checked under SpecClient. *)

Called == delivered # Null /\ delivered.kind = "call"
Fired == delivered # Null /\ delivered.kind = "chain"
Deferred == delivered # Null /\ delivered.kind = "deferred"

\* C24: a chain 'connect', 'disconnect' or 'reset' is forwarded as
\* 'block connect', 'block disconnect' or 'chain reset' if and only if the
\* client is open when the event fires; the client is open exactly between
\* a successful open() and the next successful close(); open() on an open
\* client and close() on a closed one fail and leave the flag unchanged.
C24_ForwardIffOpen ==
    /\ clientOpened <=> lastCall = "open"
    /\ Fired =>
         /\ (delivered.emitted # <<>>) <=> (lastCall = "open")
         /\ delivered.emitted # <<>> =>
              delivered.emitted = << [name |-> emitAs(delivered.event),
                                      args |-> delivered.args] >>
    /\ Called =>
         /\ delivered.threw <=>
              \/ delivered.name = "open" /\ delivered.before
              \/ delivered.name = "close" /\ ~delivered.before
         /\ delivered.threw => delivered.after = delivered.before
         /\ ~delivered.threw => delivered.after = (delivered.name = "open")

\* A chain event forwarded by a client that was opened, closed and opened
\* again.
C24_Witness ==
    /\ Fired
    /\ delivered.emitted # <<>>
    /\ delivered.emitted[1].name = "block disconnect"
    /\ Len(immediates) = 3

\* C25: the 'connect' that open() schedules is delivered only while the
\* client is still open, and the 'disconnect' that close() schedules only
\* while it is still closed.
C25_DeferredInState ==
    Deferred =>
        /\ delivered.event = "connect" => delivered.opened
        /\ delivered.event = "disconnect" => ~delivered.opened

-----------------------------------------------------------------------------
(* SpecAsync: setChartData as the asynchronous function it is. A call runs  *)
(* without yielding up to the store write it awaits (plugin.js 331); the    *)
(* rest of the call runs when the write has completed. Nothing keeps a      *)
(* second call from beginning in between.                                   *)

\* setChartData is called at most this many times.
MaxAsyncCalls == 3

\* Whether setChartData(data) takes the branch that awaits the store write.
awaitsPut(date, data) == date # 0 /\ dayOf(data.time) > date

\* The call suspended at the await of plugin.js 331: the put it issued and
\* what the lines after it will assign.
suspended(buf, data) ==
    [kind |-> "setChartData", data |-> data, date |-> dayOf(data.time),
     puts |-> << <<dayOf(data.time) * 3600 * 24,
                   encodeChart(fromArray(buf))>> >>]

\* The calls of setChartData one after the other, each run to its end, from
\* the aggregator agg and the daily records d.
RECURSIVE serial(_, _, _)
serial(agg, points, k) ==
    IF k > Len(points) THEN agg
    ELSE LET r == setChartData(agg.date, agg.buf, points[k])
         IN serial([date |-> r.date, buf |-> r.buf,
                    d |-> putAll(agg.d, r.puts, 1)], points, k + 1)

InitAsync == Init

\* setChartData(data) is called: it runs to its end, or suspends at the
\* await with the aggregator untouched.
BeginSetChartData ==
    /\ calls < MaxAsyncCalls
    /\ calls' = calls + 1
    /\ \E data \in Points :
         /\ observed' = Append(observed, data)
         /\ IF awaitsPut(chartDataCurrentDate, data)
            THEN /\ handlers' = Append(handlers,
                                       suspended(chartDataCurrent, data))
                 /\ UNCHANGED <<chartDataCurrentDate, chartDataCurrent>>
            ELSE LET r == setChartData(chartDataCurrentDate,
                                       chartDataCurrent, data)
                 IN /\ chartDataCurrentDate' = r.date
                    /\ chartDataCurrent' = r.buf
                    /\ UNCHANGED handlers
    /\ UNCHANGED <<chainVars, db, flushed, clientOpened, deferVars>>
    /\ UNCHANGED <<openVars, addrVars>>

\* The put of the oldest suspended call completes and the call runs on:
\* plugin.js 333-336.
ResumeSetChartData ==
    /\ handlers # <<>>
    /\ LET h == Head(handlers)
       IN /\ db' = [db EXCEPT !.d = putAll(@, h.puts, 1)]
          /\ chartDataCurrent' = <<h.data>>
          /\ chartDataCurrentDate' = h.date
          /\ flushed' = [puts |-> h.puts, prevDate |-> chartDataCurrentDate,
                         buf |-> chartDataCurrent]
    /\ handlers' = Tail(handlers)
    /\ UNCHANGED <<chainVars, observed, calls, clientOpened, deferVars>>
    /\ UNCHANGED <<openVars, addrVars>>

NextAsync == BeginSetChartData \/ ResumeSetChartData

SpecAsync == InitAsync /\ [][NextAsync]_vars

-----------------------------------------------------------------------------
(* Claims about overlapping calls of setChartData, checked under SpecAsync. *)

\* C26: when a call of setChartData begins while the store write of an
\* earlier call is pending, the outcome is that of the calls run one after
\* the other: once no call is suspended, the buffer, the bucket day and the
\* daily records are those of the serial run over the same points.
C26_AsIfSerial ==
    handlers = <<>> =>
        LET s == serial([date |-> 0, buf |-> <<>>, d |-> <<>>], observed, 1)
        IN /\ chartDataCurrent = s.buf
           /\ chartDataCurrentDate = s.date
           /\ db.d = s.d

-----------------------------------------------------------------------------
(* SpecHTTP: the options of the HTTP server (HTTPOptions, lib/http.js) and  *)
(* the authentication middleware initRouter installs. An option that is     *)
(* not given is <<>>, one that is given is <<value>>.                       *)

Given(option) == option # <<>>

\* The options Plugin's constructor may pass: api-key, no-auth, http-host.
HTTPOptionSets ==
    [apiKey : {<<>>, <<"">>, <<"key">>},
     noAuth : {<<>>, <<TRUE>>, <<FALSE>>},
     host   : {<<>>, <<"127.0.0.1">>, <<"::1">>, <<"0.0.0.0">>,
               <<"localhost">>}]

\* !options.apiKey: undefined, null or the empty string.
falsy(option) == ~Given(option) \/ option[1] = ""

\* Mutant of fromOptions: without the implicit rule for local hosts.
fromOptionsExplicit(self, options) ==
    [apiKey |-> IF Given(options.apiKey) THEN options.apiKey[1]
                ELSE self.apiKey,
     noAuth |-> IF Given(options.noAuth) THEN options.noAuth[1]
                ELSE self.noAuth,
     host   |-> IF Given(options.host) THEN options.host[1] ELSE self.host]

\* HTTPOptions.fromOptions, for the three options that decide
\* authentication.
fromOptions(self, options) ==
    LET apiKey == IF Given(options.apiKey) THEN options.apiKey[1]
                  ELSE self.apiKey
        noAuth == IF Given(options.noAuth) THEN options.noAuth[1]
                  ELSE self.noAuth
        host   == IF Given(options.host) THEN options.host[1] ELSE self.host
    IN [apiKey |-> apiKey,
        noAuth |-> IF falsy(options.apiKey)
                      /\ (host = "127.0.0.1" \/ host = "::1")
                   THEN TRUE ELSE noAuth,
        host   |-> host]

\* new HTTPOptions(options): the defaults (a random API key, noAuth false,
\* host 127.0.0.1), then fromOptions.
HTTPOptions(options) ==
    fromOptions([apiKey |-> "random", noAuth |-> FALSE, host |-> "127.0.0.1"],
                options)

\* initRouter: whether the basic-authentication middleware is installed in
\* front of the routes.
usesBasicAuth(options) == ~options.noAuth

Routes == {"/summary", "/txs"}

\* The password a request carries, if any.
Passwords == {<<>>, <<"key">>, <<"guess">>}

\* The status of a request: 401 from the middleware unless the password is
\* the API key, else the route's answer.
respond(options, password) ==
    IF usesBasicAuth(options) /\ password # <<options.apiKey>> THEN 401
    ELSE 200

InitHTTP ==
    /\ Init
    /\ cur = Null

\* new HTTP(options): the server with its options and middleware.
NewHTTP ==
    /\ \E options \in HTTPOptionSets :
         cur' = [kind |-> "http", given |-> options,
                 options |-> HTTPOptions(options),
                 request |-> <<>>, status |-> 0]
    /\ UNCHANGED <<state, pending, hdbHeight, db, pc, pre, result, chain, unwound>>
    /\ UNCHANGED <<chartVars, openVars, addrVars, clientVars>>

\* A request reaches a route of the server.
Request ==
    /\ cur # Null
    /\ \E route \in Routes : \E password \in Passwords :
         cur' = [cur EXCEPT !.request = <<route, password>>,
                            !.status = respond(cur.options, password)]
    /\ UNCHANGED <<state, pending, hdbHeight, db, pc, pre, result, chain, unwound>>
    /\ UNCHANGED <<chartVars, openVars, addrVars, clientVars>>

NextHTTP == NewHTTP \/ Request

SpecHTTP == InitHTTP /\ [][NextHTTP]_vars

-----------------------------------------------------------------------------
(* Claims about the HTTP server's authentication, checked under SpecHTTP. *)

Served == cur # Null /\ cur.kind = "http"

\* The host the server listens on: the one given, else 127.0.0.1.
ListensOn(given) == IF Given(given.host) THEN given.host[1] ELSE "127.0.0.1"

\* C27: authentication is skipped only when noAuth was explicitly set to
\* true, or when no API key was supplied and the host is 127.0.0.1 or ::1;
\* for every other combination every route requires the API key.
C27_AuthSkippedOnlyLocally ==
    Served =>
        LET skip == \/ cur.given.noAuth = <<TRUE>>
                    \/ /\ falsy(cur.given.apiKey)
                       /\ ListensOn(cur.given) \in {"127.0.0.1", "::1"}
        IN /\ cur.options.noAuth <=> skip
           /\ cur.request # <<>> =>
                (cur.status = 200 <=>
                    (skip \/ cur.request[2] = <<cur.options.apiKey>>))

\* A server told noAuth: false, with no API key and no host, answers a
\* request that carries no password.
C27_Witness ==
    /\ Served
    /\ cur.given = [apiKey |-> <<>>, noAuth |-> <<FALSE>>, host |-> <<>>]
    /\ cur.request # <<>>
    /\ cur.request[2] = <<>>
    /\ cur.status = 200

-----------------------------------------------------------------------------
(* SpecPlugin: Plugin.open (lib/plugin.js): the store, the indexer and the  *)
(* HTTP server are opened one after the other, each call awaited.           *)

\* Mutant of afterOpen: a failed component does not stop Plugin.open.
afterOpenAnyway(step, threw) ==
    CASE step = "new"     -> "indexer"
      [] step = "indexer" -> "http"
      [] step = "http"    -> "done"

\* Where Plugin.open stands after the component call of `step` returned or
\* threw: a rejected await ends the function.
afterOpen(step, threw) ==
    IF threw THEN "failed"
    ELSE CASE step = "new"     -> "indexer"
           [] step = "indexer" -> "http"
           [] step = "http"    -> "done"

status(threw) == IF threw THEN "failed" ELSE "open"

InitPlugin == InitOpen

\* await this.hdb.open()
OpenHdb ==
    /\ plugin.step = "new"
    /\ LET r == open(db, state)
       IN /\ db' = r.store
          /\ state' = r.state
          /\ opened' = status(r.threw)
          /\ result' = IF r.threw THEN "threw" ELSE "ok"
          /\ plugin' = [plugin EXCEPT !.step = afterOpen("new", r.threw),
                                      !.hdb = status(r.threw)]
    /\ UNCHANGED <<pending, hdbHeight, pc, cur, pre, chain, unwound, network>>
    /\ UNCHANGED <<chartVars, addrVars, clientVars>>

\* await this.indexer.open(): it succeeds or it throws.
OpenIndexer ==
    /\ plugin.step = "indexer"
    /\ \E threw \in BOOLEAN :
         /\ plugin' = [plugin EXCEPT !.step = afterOpen("indexer", threw),
                                     !.indexer = status(threw)]
         /\ result' = IF threw THEN "threw" ELSE "ok"
    /\ UNCHANGED <<state, pending, hdbHeight, db, pc, cur, pre, chain, unwound,
                   network, opened>>
    /\ UNCHANGED <<chartVars, addrVars, clientVars>>

\* await this.http.open(): the server listens, or it throws.
OpenHTTP ==
    /\ plugin.step = "http"
    /\ \E threw \in BOOLEAN :
         /\ plugin' = [plugin EXCEPT !.step = afterOpen("http", threw),
                                     !.http = status(threw)]
         /\ result' = IF threw THEN "threw" ELSE "ok"
    /\ UNCHANGED <<state, pending, hdbHeight, db, pc, cur, pre, chain, unwound,
                   network, opened>>
    /\ UNCHANGED <<chartVars, addrVars, clientVars>>

\* The listening HTTP server serves a query.
ServeQuery ==
    /\ plugin.http = "open"
    /\ cur' = [kind |-> "served", hdb |-> plugin.hdb,
               indexer |-> plugin.indexer, height |-> getHeight(db)]
    /\ UNCHANGED <<state, pending, hdbHeight, db, pc, pre, result, chain, unwound>>
    /\ UNCHANGED <<chartVars, openVars, addrVars, clientVars>>

NextPlugin == OpenHdb \/ OpenIndexer \/ OpenHTTP \/ ServeQuery

SpecPlugin == InitPlugin /\ [][NextPlugin]_vars

-----------------------------------------------------------------------------
(* Claims about Plugin.open, checked under SpecPlugin. *)

\* C29: Plugin.open opens the store, the indexer and the HTTP server in
\* this order, each only after the previous one succeeded: no query is
\* served before HnscanDB.open and Indexer.open have both succeeded, and
\* when either of them fails the HTTP server is never opened.
C29_OpenOrder ==
    /\ plugin.indexer # "closed" => plugin.hdb = "open"
    /\ plugin.http # "closed" =>
         (plugin.hdb = "open" /\ plugin.indexer = "open")
    /\ (plugin.hdb = "failed" \/ plugin.indexer = "failed") =>
         (plugin.http = "closed" /\ plugin.step = "failed")
    /\ (cur # Null /\ cur.kind = "served") =>
         (cur.hdb = "open" /\ cur.indexer = "open")

\* A query served by a plugin whose store held the state of an earlier run.
C29_Witness ==
    /\ cur # Null
    /\ cur.kind = "served"
    /\ plugin.step = "done"
    /\ Counters(state) = Counters(StateAfterGenesis)

-----------------------------------------------------------------------------
(* SpecTxs: Hnscan.getTransactions (lib/hnscan.js) over the node's chain:   *)
(* the genesis block at height 0 and the connected blocks above it.         *)

\* The largest limit a query asks for.
MaxLimit == 4

\* chain.getBlock(i) for i = 0..chain.height, as the sequence of blocks.
blocksOf(ch) == <<GenesisBlock>> \o [k \in 1..Len(ch) |-> ch[k].block]

\* txToJSON(tx, entry): the transaction with the height of its block.
txToJSON(tx, height, index) == [height |-> height, index |-> index, tx |-> tx]

\* The loops of getTransactions from block i (0-based height) and
\* transaction k on: the list is returned when its length reaches limit;
\* when the loops run out the function ends without a return statement.
RECURSIVE getTransactionsFrom(_, _, _, _, _)
getTransactionsFrom(blocks, txs, i, k, limit) ==
    IF i < 0 THEN [returned |-> FALSE, txs |-> <<>>]
    ELSE IF k > Len(blocks[i + 1].txs)
         THEN getTransactionsFrom(blocks, txs, i - 1, 1, limit)
    ELSE LET pushed == Append(txs, txToJSON(blocks[i + 1].txs[k], i, k - 1))
         IN IF Len(pushed) = limit
            THEN [returned |-> TRUE, txs |-> pushed]
            ELSE getTransactionsFrom(blocks, pushed, i, k + 1, limit)

\* Hnscan.getTransactions(limit); returned is false when the call yields
\* undefined.
getTransactions(blocks, limit) ==
    getTransactionsFrom(blocks, <<>>, Len(blocks) - 1, 1, limit)

InitTxs ==
    /\ Init
    /\ cur = Null

\* GET /txs without height and address: getTransactions(limit) on the
\* chain as it stands.
QueryTxs ==
    /\ \E limit \in 0..MaxLimit :
         cur' = [kind |-> "txs", limit |-> limit, tip |-> Len(chain),
                 answer |-> getTransactions(blocksOf(chain), limit)]
    /\ UNCHANGED <<state, pending, hdbHeight, db, pc, pre, result, chain, unwound>>
    /\ UNCHANGED <<chartVars, openVars, addrVars, clientVars>>

NextTxs == ConnectNames \/ QueryTxs

SpecTxs == InitTxs /\ [][NextTxs]_vars

-----------------------------------------------------------------------------
(* Claims about getTransactions, checked under SpecTxs. *)

\* Every transaction of the blocks 0..tip, the highest block first and each
\* block's transactions in block order.
RECURSIVE Recent(_, _)
Recent(blocks, i) ==
    IF i < 0 THEN <<>>
    ELSE [k \in 1..Len(blocks[i + 1].txs) |->
             txToJSON(blocks[i + 1].txs[k], i, k - 1)]
         \o Recent(blocks, i - 1)

\* C30: getTransactions(limit) returns the list of the min(limit, N) most
\* recent transactions, scanning from the tip down to height 0 and each
\* block in block order, N being the number of transactions in the chain,
\* for every limit >= 0 and every N.
C30_MostRecent ==
    (cur # Null /\ cur.kind = "txs") =>
        LET all == Recent(blocksOf(SubSeq(chain, 1, cur.tip)), cur.tip)
            n   == IF cur.limit < Len(all) THEN cur.limit ELSE Len(all)
        IN /\ cur.answer.returned
           /\ cur.answer.txs = SubSeq(all, 1, n)

====
